---------------------------- MODULE Spec2Model ----------------------------
(***************************************************************************)
(* A model of the ShiftSchedule backend: the schedule solver               *)
(* (backend/solver.py, _solve_range_impl), the solver orchestrator         *)
(* (backend/solver.py, solve_range / abort_solver) and the state           *)
(* normalizer (backend/state.py, _normalize_state).                        *)
(*                                                                         *)
(* Dates are day numbers; day 0 is a Monday, so the weekday of day d is    *)
(* d % 7.  ISO date strings of well-formed dates compare like these        *)
(* numbers.  A time string "HH:MM" is the pair <<h, m>>; any other string  *)
(* (and None) is the empty tuple.  An optional value is <<>> (None) or the *)
(* one-element tuple <<v>>.                                                *)
(***************************************************************************)
EXTENDS Integers, Sequences, FiniteSets, TLC

VARIABLES
    \* ---- solver core (_solve_range_impl) ----
    state,            \* the document returned by _load_state
    payload,          \* the SolveRangeRequest
    impl_pc,          \* position of _solve_range_impl
    solver_status,    \* status of the latest CP-SAT solve
    week_cursor,      \* week-by-week fallback: first day of the next week
    week_assignments, \* week-by-week fallback: assignments of the weeks so far
    week_success,     \* week-by-week fallback: no week has failed so far
    response,         \* the SolveRangeResponse, once returned
    outer,            \* the request whose fallback runs this solve, if any
    slot_contexts,    \* _solve_range_impl locals, once computed
    slot_intervals,
    all_slot_intervals,
    manual_assignments,
    all_manual_assignments,
    var_map,
    constraints,
    slot_date_info,
    \* ---- orchestrator (solve_range), one call per request thread ----
    call_pc,                \* position of each solve_range call
    _solver_running_lock,   \* the thread holding the lock, if any
    _solver_is_running,
    _solver_cancel_event,
    _solver_process,        \* the call whose worker the global names, if any
    worker_pc,              \* each call's worker process
    was_aborted,            \* each worker's SolutionCallback.was_aborted
    progress_queue,         \* each call's queue of worker messages
    cancel_event,           \* each call's worker cancellation flag
    heartbeat_value,        \* each call's heartbeat counter
    call_result,            \* solve_range locals result, error and
    call_error,             \* last_solution_assignments of each call
    last_solution_assignments,
    relayed,                \* the events each call has broadcast
    call_outcome,           \* how each call ended
    call_exception,         \* the exception each call raised, if any
    worker_had_exited,      \* each call: its worker had exited when the
                            \* monitor loop ended
    abort_pc,               \* position of the abort_solver request
    abort_force,            \* its force parameter
    abort_status,           \* the status it returned
    abort_saw,              \* when it read the flag: the calls not yet
                            \* ended, those running, those with a live worker
    \* ---- state normalizer (_normalize_state) ----
    raw_state,              \* the document handed to _normalize_state
    norm_pc,                \* position of _normalize_state
    norm_pass,              \* number of the normalization pass
    normalized,             \* the state object _normalize_state works on
    changed,                \* its changed flag
    \* ---- persistence (_load_state, _save_state) ----
    stored_data,            \* app_state.data of the user's row
    updated_at,             \* app_state.updated_at of the user's row: the
                            \* number of the load that wrote the row, 0 for
                            \* a row written before the first load
    \* ---- iCal feed (generate_ics) ----
    ics_input,              \* the arguments of generate_ics
    ics_pc,                 \* position of generate_ics
    ics_index,              \* index of the next assignment of its loop
    lines,                  \* its list of logical lines
    ics,                    \* the text it returns, once returned
    \* ---- clinician normalization (_normalize_state) ----
    clinician_times,        \* the preferredWorkingTimes of the clinician
    times_pc,               \* position of the clinician's normalization
    preferred_working_times, \* the normalized map, once computed
    \* ---- heartbeat watchdog of one worker (_solver_subprocess_worker) ----
    monitoring,             \* the parent's monitor loop is running
    heartbeat_counter,      \* the parent's counter, which heartbeat_value holds
    subprocess_pc,          \* position of the worker process
    own_cancel_event,       \* the cancellation flag of the worker
    watchdog_pc,            \* position of the watchdog thread
    last_heartbeat,         \* watchdog locals: the heartbeat last seen,
    last_heartbeat_age,     \* seconds since last_heartbeat_time at a read
    ticked,                 \* the heartbeat was written since the
                            \* watchdog's latest read
    \* ---- working-hours penalty of one clinician (_solve_range_impl) ----
    hours_input,            \* the clinician, the number of target days and
                            \* the minutes of the clinician's assignments
    hours_pc,               \* position of the penalty's construction
    hours_penalty,          \* the least value of the clinician's penalty term
    \* ---- week-by-week fallback inside the worker of call t1 ----
    fallback_pc,            \* position of the worker's week-by-week fallback
    week_num,               \* the number of week solves the fallback has started
    worker_solver_cancel_event,\* _solver_cancel_event of the worker process
    week_cancel_event,      \* the cancellation flag of the week's solve
    week_started_cancelled  \* a week's solve started with the worker's flag set

solverVars == <<state, payload, impl_pc, solver_status, week_cursor,
                week_assignments, week_success, response, outer,
                slot_contexts, slot_intervals, all_slot_intervals,
                manual_assignments, all_manual_assignments, var_map,
                constraints, slot_date_info>>

orchVars == <<call_pc, _solver_running_lock, _solver_is_running,
              _solver_cancel_event, _solver_process, worker_pc,
              progress_queue, cancel_event, heartbeat_value, call_result,
              call_error, last_solution_assignments, relayed, call_outcome,
              call_exception, worker_had_exited, abort_pc, abort_force,
              abort_status, abort_saw, was_aborted>>

\* what a solve_range step that neither raises nor leaves its loop keeps
historyVars == <<call_exception, worker_had_exited, was_aborted>>

abortVars == <<abort_pc, abort_force, abort_status, abort_saw>>

normVars == <<raw_state, norm_pc, norm_pass, normalized, changed,
              stored_data, updated_at>>

icalVars == <<ics_input, ics_pc, ics_index, lines, ics>>

prefVars == <<clinician_times, times_pc, preferred_working_times>>

watchdogVars == <<monitoring, heartbeat_counter, subprocess_pc,
                  own_cancel_event, watchdog_pc, last_heartbeat,
                  last_heartbeat_age, ticked>>

hoursVars == <<hours_input, hours_pc, hours_penalty>>

fallbackVars == <<fallback_pc, week_num, worker_solver_cancel_event,
                  week_cancel_event, week_started_cancelled>>

vars == <<solverVars, orchVars, normVars, icalVars, prefVars, watchdogVars, hoursVars, fallbackVars>>

-----------------------------------------------------------------------------
(* Generic helpers *)

None == <<>>

Some(v) == <<v>>

Max(a, b) == IF a >= b THEN a ELSE b

Min(a, b) == IF a <= b THEN a ELSE b

Range(s) == {s[i] : i \in DOMAIN s}

RECURSIVE SumOver(_, _)
SumOver(S, f) ==
    IF S = {} THEN 0
    ELSE LET x == CHOOSE y \in S : TRUE IN f[x] + SumOver(S \ {x}, f)

\* The subsequence of s at the indexes satisfying Keep, in order.
RECURSIVE FilterIdx(_, _, _)
FilterIdx(s, Keep(_), i) ==
    IF i > Len(s) THEN <<>>
    ELSE (IF Keep(i) THEN <<s[i]>> ELSE <<>>) \o FilterIdx(s, Keep, i + 1)

RECURSIVE Flatten(_)
Flatten(ss) == IF ss = <<>> THEN <<>> ELSE Head(ss) \o Flatten(Tail(ss))

-----------------------------------------------------------------------------
(* Program constants *)

\* constants.py is not under src/; the values are the ones the spec gives
\* ("parse(startTime) or 08:00", "parse(endTime) or start + 8h").
DEFAULT_SUB_SHIFT_START_MINUTES == 480

DEFAULT_SUB_SHIFT_MINUTES == 480

DEFAULT_LOCATION_ID == "loc-default"

BIG == 20

FALLBACK_MIN_DAYS == 14

WEEK_SPAN == 6

DAY_TYPES == <<"mon", "tue", "wed", "thu", "fri", "sat", "sun", "holiday">>

WEEKDAYS == <<"mon", "tue", "wed", "thu", "fri", "sat", "sun">>

-----------------------------------------------------------------------------
(* Dates and times *)

_get_weekday_key(date_iso) == WEEKDAYS[(date_iso % 7) + 1]

_get_day_type(date_iso, holidays) ==
    IF date_iso \in holidays THEN "holiday" ELSE _get_weekday_key(date_iso)

_parse_time_to_minutes(value) ==
    IF value = None \/ Len(value) # 2 THEN None
    ELSE IF value[1] < 0 \/ value[1] > 23 \/ value[2] < 0 \/ value[2] > 59
         THEN None
         ELSE Some(value[1] * 60 + value[2])

_normalize_window_requirement(value) ==
    IF value = "preferred" THEN "preference"
    ELSE IF value \in {"none", "preference", "mandatory"} THEN value
    ELSE "none"

\* (requirement, start, end); <<"none">> stands for ("none", None, None)
_get_clinician_time_window(clinician, weekday_key) ==
    LET raw == clinician.preferredWorkingTimes IN
    IF weekday_key \notin DOMAIN raw THEN <<"none">>
    ELSE LET entry == raw[weekday_key]
             requirement == _normalize_window_requirement(entry.requirement)
             start_minutes == _parse_time_to_minutes(entry.startTime)
             end_minutes == _parse_time_to_minutes(entry.endTime)
         IN IF \/ requirement = "none"
               \/ start_minutes = None
               \/ end_minutes = None
               \/ end_minutes[1] <= start_minutes[1]
            THEN <<"none">>
            ELSE <<requirement, start_minutes[1], end_minutes[1]>>

_build_slot_interval(slot, location_id) ==
    LET ps == _parse_time_to_minutes(slot.startTime)
        start == IF ps = None THEN DEFAULT_SUB_SHIFT_START_MINUTES ELSE ps[1]
        pe == _parse_time_to_minutes(slot.endTime)
        end == IF pe = None THEN start + DEFAULT_SUB_SHIFT_MINUTES ELSE pe[1]
        offset == IF slot.endDayOffset = None THEN 0 ELSE slot.endDayOffset[1]
        total_end == end + Max(0, Min(3, offset)) * 24 * 60
    IN [start |-> start,
        end |-> IF total_end <= start THEN start ELSE total_end,
        loc |-> location_id]

-----------------------------------------------------------------------------
(* Slot contexts (_collect_slot_contexts) *)

\* The last index of s whose element satisfies P, or 0: a dict built from a
\* list keeps the last entry of each key.
LastIdx(s, P(_)) ==
    LET hits == {i \in DOMAIN s : P(s[i])} IN
    IF hits = {} THEN 0 ELSE CHOOSE i \in hits : \A j \in hits : j <= i

FirstIdx(s, P(_)) ==
    LET hits == {i \in DOMAIN s : P(s[i])} IN
    IF hits = {} THEN 0 ELSE CHOOSE i \in hits : \A j \in hits : i <= j

DayOrder(day_type) ==
    LET P(x) == x = day_type
        i == FirstIdx(DAY_TYPES, P)
    IN IF i = 0 THEN 0 ELSE i - 1

TemplateLocationId(st, template_location) ==
    IF st.locationsEnabled THEN template_location.locationId
    ELSE DEFAULT_LOCATION_ID

ContextsOfLocation(st, template, template_location) ==
    LET Resolves(i) ==
            LET slot == template_location.slots[i]
                IsBlock(b) == b.id = slot.blockId
                IsBand(b) == b.id = slot.colBandId
            IN LastIdx(template.blocks, IsBlock) # 0
               /\ LastIdx(template_location.colBands, IsBand) # 0
        Ctx(slot) ==
            LET IsBlock(b) == b.id = slot.blockId
                IsBand(b) == b.id = slot.colBandId
                IsRow(b) == b.id = slot.rowBandId
                IsLoc(l) == l = template_location.locationId
                bi == LastIdx(template.blocks, IsBlock)
                ci == LastIdx(template_location.colBands, IsBand)
                ri == LastIdx(template_location.rowBands, IsRow)
                li == LastIdx(st.locations, IsLoc)
            IN [slot |-> slot,
                slot_id |-> slot.id,
                section_id |-> template.blocks[bi].sectionId,
                location_id |-> TemplateLocationId(st, template_location),
                block_order |-> bi - 1,
                row_order |-> IF ri = 0 THEN 0
                              ELSE template_location.rowBands[ri].order,
                col_order |-> template_location.colBands[ci].order,
                day_type |-> template_location.colBands[ci].dayType,
                day_order |-> DayOrder(template_location.colBands[ci].dayType),
                location_order |-> IF li = 0 THEN 0 ELSE li - 1]
        kept == FilterIdx(template_location.slots, Resolves, 1)
    IN [i \in DOMAIN kept |-> Ctx(kept[i])]

ContextKeyLess(a, b) ==
    LET ka == <<a.block_order, a.location_order, a.row_order, a.day_order,
                a.col_order>>
        kb == <<b.block_order, b.location_order, b.row_order, b.day_order,
                b.col_order>>
    IN \E i \in 1..5 : ka[i] < kb[i] /\ \A j \in 1..(i - 1) : ka[j] = kb[j]

\* list.sort is stable: equal keys keep the template order.
RECURSIVE StableInsert(_, _)
StableInsert(sorted, x) ==
    IF sorted = <<>> THEN <<x>>
    ELSE IF ContextKeyLess(x, Head(sorted)) THEN <<x>> \o sorted
         ELSE <<Head(sorted)>> \o StableInsert(Tail(sorted), x)

RECURSIVE StableSort(_)
StableSort(s) ==
    IF s = <<>> THEN <<>>
    ELSE StableInsert(StableSort(SubSeq(s, 1, Len(s) - 1)), s[Len(s)])

_collect_slot_contexts(st) ==
    IF st.weeklyTemplate = None THEN <<>>
    ELSE LET template == st.weeklyTemplate[1]
             per == [i \in DOMAIN template.locations |->
                        ContextsOfLocation(st, template, template.locations[i])]
         IN StableSort(Flatten(per))

-----------------------------------------------------------------------------
(* The date horizon and the inputs of the model (solver.py 804-923) *)

RangeStart(pl) == pl.startISO

RangeEnd(pl) == IF pl.endISO = None THEN pl.startISO + WEEK_SPAN ELSE pl.endISO[1]

\* solver.py 1660: the number of days of a request's range
TotalDays(pl) == RangeEnd(pl) - RangeStart(pl) + 1

\* day_isos: the context horizon, one day around the target range
DayIsos(pl) == (RangeStart(pl) - 1)..(RangeEnd(pl) + 1)

TargetDayIsos(pl) == RangeStart(pl)..RangeEnd(pl)

\* day_index_by_iso
DayIndex(pl, date_iso) == date_iso - (RangeStart(pl) - 1)

\* slot_intervals: the interval of each slot that has a context; the last
\* context of an id wins (solver.py 838-842)
SlotIntervals(ctxs) ==
    [sid \in {ctxs[k].slot_id : k \in DOMAIN ctxs} |->
        LET k == CHOOSE i \in DOMAIN ctxs :
                    /\ ctxs[i].slot_id = sid
                    /\ \A j \in DOMAIN ctxs : ctxs[j].slot_id = sid => j <= i
        IN _build_slot_interval(ctxs[k].slot, ctxs[k].location_id)]

\* all_slot_intervals: slot_intervals, then the first template slot of each
\* id that has no context (solver.py 846-857)
AllSlotIntervals(st, ivs) ==
    IF st.weeklyTemplate = None THEN ivs
    ELSE LET template == st.weeklyTemplate[1]
             places == UNION {{<<i, j>> : j \in DOMAIN template.locations[i].slots} :
                                i \in DOMAIN template.locations}
             SlotAt(p) == template.locations[p[1]].slots[p[2]]
             First(sid) == CHOOSE p \in places :
                /\ SlotAt(p).id = sid
                /\ \A q \in places : SlotAt(q).id = sid =>
                        (p[1] < q[1] \/ (p[1] = q[1] /\ p[2] <= q[2]))
         IN [sid \in (DOMAIN ivs) \cup {SlotAt(p).id : p \in places} |->
                IF sid \in DOMAIN ivs THEN ivs[sid]
                ELSE _build_slot_interval(SlotAt(First(sid)),
                        TemplateLocationId(st, template.locations[First(sid)[1]]))]

\* vac_by_clinician keeps the vacations of the last clinician of an id
is_on_vac(st, clinician_id, date_iso) ==
    LET P(c) == c.id = clinician_id
        i == LastIdx(st.clinicians, P)
    IN i # 0 /\ \E v \in st.clinicians[i].vacations :
                    v.startISO <= date_iso /\ date_iso <= v.endISO

\* The assignments of the document the solver takes as fixed: inside the
\* context horizon, not on a vacation day of the clinician, on a slot of
\* row_ids (solver.py 880-896).  The result holds indexes of
\* state.assignments.
ManualAssignments(st, pl, row_ids) ==
    {i \in DOMAIN st.assignments :
        /\ st.assignments[i].dateISO \in DayIsos(pl)
        /\ ~is_on_vac(st, st.assignments[i].clinicianId, st.assignments[i].dateISO)
        /\ st.assignments[i].rowId \in row_ids}

\* the entries of a manual lookup for one clinician and date
ManualOn(st, man, cid, date_iso) ==
    {i \in man : st.assignments[i].clinicianId = cid
                 /\ st.assignments[i].dateISO = date_iso}

-----------------------------------------------------------------------------
(* Decision variables (solver.py 929-963) *)

FitsWindow(interval, window) ==
    interval.start >= window[2] /\ interval.end <= window[3]

\* Admitted without the vacation test
Admitted_IgnoringVacation(st, clinician, date_iso, ctx, ivs) ==
    /\ ctx.day_type = _get_day_type(date_iso, st.holidays)
    /\ ctx.section_id \in clinician.qualifiedClassIds
    /\ LET window == _get_clinician_time_window(clinician,
                                                _get_weekday_key(date_iso))
       IN ~(window[1] = "mandatory" /\ ~FitsWindow(ivs[ctx.slot_id], window))

Admitted(st, clinician, date_iso, ctx, ivs) ==
    /\ ~is_on_vac(st, clinician.id, date_iso)
    /\ ctx.day_type = _get_day_type(date_iso, st.holidays)
    /\ ctx.section_id \in clinician.qualifiedClassIds
    /\ LET window == _get_clinician_time_window(clinician,
                                                _get_weekday_key(date_iso))
       IN ~(window[1] = "mandatory" /\ ~FitsWindow(ivs[ctx.slot_id], window))

\* var_map: the keys (clinician_id, date_iso, slot_id)
VarMap(st, pl, ctxs, ivs) ==
    {[c |-> st.clinicians[t[1]].id, d |-> t[2], s |-> ctxs[t[3]].slot_id] :
        t \in {u \in (DOMAIN st.clinicians) \X TargetDayIsos(pl) \X (DOMAIN ctxs) :
                Admitted(st, st.clinicians[u[1]], u[2], ctxs[u[3]], ivs)}}

\* vars_by_clinician_date[cid][date]
DayVars(vm, cid, date_iso) == {v \in vm : v.c = cid /\ v.d = date_iso}

-----------------------------------------------------------------------------
(* Hard constraints.  Every model.Add(...) is a record                     *)
(*   [k, vs, n, oc]: at most n of the variables vs are 1;                   *)
(* for k = "rest_link" the bound is n * (1 - on_call_var), where            *)
(* on_call_var is 1 exactly when one of the variables oc is 1               *)
(* (solver.py 1274-1276).                                                   *)

Con(k, vs, n) == [k |-> k, vs |-> vs, n |-> n, oc |-> {}]

\* Overlaps that only sees an interval starting inside the other one
Overlaps_StartInsideOnly(start_a, end_a, start_b, end_b) ==
    start_a < start_b /\ start_b < end_a

\* solver.py 1035, 1051, 1084, 1096
Overlaps(start_a, end_a, start_b, end_b) ==
    ~(end_a <= start_b \/ end_b <= start_a)

\* LocationsDiffer with the comparison of the two locations inverted
LocationsDiffer_Inverted(st, loc_a, loc_b) ==
    /\ st.solverSettings.enforceSameLocationPerDay
    /\ loc_a # ""
    /\ loc_b # ""
    /\ loc_a = loc_b

\* solver.py 1039-1044, 1054-1059
LocationsDiffer(st, loc_a, loc_b) ==
    /\ st.solverSettings.enforceSameLocationPerDay
    /\ loc_a # ""
    /\ loc_b # ""
    /\ loc_a # loc_b

\* solver.py 1029-1045: two variables of one clinician on one date
SameDayVarConstraints(st, vm, ivs) ==
    LET pairs == {p \in vm \X vm :
                    p[1] # p[2] /\ p[1].c = p[2].c /\ p[1].d = p[2].d}
    IN {Con("overlap", {p[1], p[2]}, 1) : p \in
            {q \in pairs : Overlaps(ivs[q[1].s].start, ivs[q[1].s].end,
                                    ivs[q[2].s].start, ivs[q[2].s].end)}}
       \cup
       {Con("location", {p[1], p[2]}, 1) : p \in
            {q \in pairs : LocationsDiffer(st, ivs[q[1].s].loc, ivs[q[2].s].loc)}}

\* solver.py 1047-1060: a variable against the manual assignments of its
\* clinician and date, taken from all_manual_assignments
SameDayManualConstraints(st, vm, ivs, aivs, aman) ==
    LET pairs == {p \in vm \X aman : /\ st.assignments[p[2]].clinicianId = p[1].c
                                     /\ st.assignments[p[2]].dateISO = p[1].d}
        Im(i) == aivs[st.assignments[i].rowId]
    IN {Con("manual_overlap", {p[1]}, 0) : p \in
            {q \in pairs : Overlaps(ivs[q[1].s].start, ivs[q[1].s].end,
                                    Im(q[2]).start, Im(q[2]).end)}}
       \cup
       {Con("manual_location", {p[1]}, 0) : p \in
            {q \in pairs : LocationsDiffer(st, ivs[q[1].s].loc, Im(q[2]).loc)}}

\* solver.py 1064-1075: the date the cross-day check pairs with date_iso:
\* the previous one of the clinician's sorted variable dates, when it is the
\* day before
PrevDates(vm, cid, date_iso) ==
    LET earlier == {v.d : v \in {w \in vm : w.c = cid /\ w.d < date_iso}}
    IN {d \in earlier : (\A e \in earlier : e <= d) /\ date_iso - d = 1}

\* solver.py 1076-1098
CrossDayConstraints(st, pl, vm, ivs, aivs, aman) ==
    LET Abs(t, date_iso) == t + DayIndex(pl, date_iso) * 24 * 60
        Im(i) == aivs[st.assignments[i].rowId]
        vpairs == {p \in vm \X vm :
                    p[1].c = p[2].c /\ p[2].d \in PrevDates(vm, p[1].c, p[1].d)}
        mpairs == {p \in vm \X aman :
                    /\ st.assignments[p[2]].clinicianId = p[1].c
                    /\ st.assignments[p[2]].dateISO \in PrevDates(vm, p[1].c, p[1].d)}
    IN {Con("cross_day", {p[1], p[2]}, 1) : p \in
            {q \in vpairs :
                Overlaps(Abs(ivs[q[1].s].start, q[1].d), Abs(ivs[q[1].s].end, q[1].d),
                         Abs(ivs[q[2].s].start, q[2].d), Abs(ivs[q[2].s].end, q[2].d))}}
       \cup
       {Con("cross_day_manual", {p[1]}, 0) : p \in
            {q \in mpairs :
                Overlaps(Abs(ivs[q[1].s].start, q[1].d), Abs(ivs[q[1].s].end, q[1].d),
                         Abs(Im(q[2]).start, st.assignments[q[2]].dateISO),
                         Abs(Im(q[2]).end, st.assignments[q[2]].dateISO))}}

\* slot_date_info (solver.py 1123-1158): one record per slot context and
\* target date of the context's day type; already is
\* manual_count_by_date_slot
SlotDateInfo(st, pl, ctxs, vm, man) ==
    LET Info(k, date_iso) ==
            LET key == <<ctxs[k].slot_id, date_iso>>
                override == IF key \in DOMAIN st.slotOverridesByKey
                            THEN st.slotOverridesByKey[key] ELSE 0
                target == Max(0, ctxs[k].slot.requiredSlots + override)
                already == Cardinality({i \in man :
                                /\ st.assignments[i].dateISO = date_iso
                                /\ st.assignments[i].rowId = ctxs[k].slot_id})
            IN [slot_id |-> ctxs[k].slot_id,
                date_iso |-> date_iso,
                base_required |-> ctxs[k].slot.requiredSlots,
                target |-> target,
                already |-> already,
                missing |-> Max(0, target - already),
                vars_here |-> {v \in vm : v.d = date_iso /\ v.s = ctxs[k].slot_id}]
    IN {Info(p[1], p[2]) : p \in
            {q \in (DOMAIN ctxs) \X TargetDayIsos(pl) :
                ctxs[q[1]].day_type = _get_day_type(q[2], st.holidays)}}

\* solver.py 1162-1168
WaveMultiplier(pl, vm, infos) ==
    LET positive == {i \in infos : i.base_required > 0}
        total_base_required == SumOver(positive, [i \in positive |-> i.base_required])
    IN IF ~pl.only_fill_required /\ total_base_required > 0
       THEN Max(1, Cardinality({v.c : v \in vm}) \div total_base_required)
       ELSE 1

\* SlotCapacity that takes the wave-based capacity in either mode
SlotCapacity_AlwaysWave(pl, info, wave_multiplier) ==
    Max(info.missing, info.base_required * wave_multiplier - info.already)

\* solver.py 1189-1195
SlotCapacity(pl, info, wave_multiplier) ==
    IF pl.only_fill_required THEN info.missing
    ELSE Max(info.missing, info.base_required * wave_multiplier - info.already)

\* solver.py 1180-1196: the constraints on sum(vars_here)
CoverageConstraints(pl, vm, infos) ==
    {Con("fill_zero", i.vars_here, 0) : i \in
        {j \in infos : j.missing = 0 /\ pl.only_fill_required /\ j.vars_here # {}}}
    \cup
    {Con("capacity", i.vars_here,
         SlotCapacity(pl, i, WaveMultiplier(pl, vm, infos))) : i \in
        {j \in infos : j.missing # 0 /\ j.vars_here # {}}}

\* a slack bound that counts the manual assignments of the slot as missing
SlackFloor_IgnoringManual(info, x) ==
    Max(0, info.target - Cardinality(info.vars_here \cap x))

\* solver.py 1197-1201: the least value the slack variable of a slot and
\* date can take when x is the set of variables equal to 1; its range is
\* 0..missing
SlackFloor_NoShortfall(info, x) == 0

SlackFloor(info, x) ==
    Max(0, info.missing - info.already - Cardinality(info.vars_here \cap x))

\* rest_shift_row_ids (solver.py 1207-1214)
RestShiftRowIds(st, ctxs) ==
    {ctxs[k].slot_id : k \in {j \in DOMAIN ctxs :
        ctxs[j].section_id = st.solverSettings.onCallRestClassId}}

\* solver.py 1208-1209, 1249-1253: the rest days, (0, 0) when the rule is off
RestDays(st, ctxs) ==
    IF st.solverSettings.onCallRestEnabled /\ RestShiftRowIds(st, ctxs) # {}
    THEN <<Max(0, st.solverSettings.onCallRestDaysBefore),
           Max(0, st.solverSettings.onCallRestDaysAfter)>>
    ELSE <<0, 0>>

\* date t is a rest day of an on-call duty on date d
IsRestDay(rest, d, t) ==
    \/ \E offset \in 1..rest[1] : t = d - offset
    \/ \E offset \in 1..rest[2] : t = d + offset

\* solver.py 1254-1306
RestConstraints(st, pl, ctxs, vm, man) ==
    LET rest_ids == RestShiftRowIds(st, ctxs)
        rest == RestDays(st, ctxs)
        ManualOnCall(cid, d) ==
            \E i \in ManualOn(st, man, cid, d) : st.assignments[i].rowId \in rest_ids
        OnCallVars(cid, d) == {v \in DayVars(vm, cid, d) : v.s \in rest_ids}
        cids == {st.clinicians[i].id : i \in DOMAIN st.clinicians}
        cases == {p \in cids \X DayIsos(pl) \X TargetDayIsos(pl) :
                    /\ ManualOnCall(p[1], p[2]) \/ OnCallVars(p[1], p[2]) # {}
                    /\ IsRestDay(rest, p[2], p[3])}
        ManualTarget(p) == ManualOn(st, man, p[1], p[3]) # {}
    IN {Con("rest_manual", DayVars(vm, p[1], p[3]), 0) : p \in
            {q \in cases : /\ ManualOnCall(q[1], q[2])
                           /\ ~ManualTarget(q)
                           /\ DayVars(vm, q[1], q[3]) # {}}}
       \cup
       {Con("rest_block", OnCallVars(p[1], p[2]), 0) : p \in
            {q \in cases : ~ManualOnCall(q[1], q[2]) /\ ManualTarget(q)}}
       \cup
       {[k |-> "rest_link", vs |-> DayVars(vm, p[1], p[3]), n |-> BIG,
         oc |-> OnCallVars(p[1], p[2])] : p \in
            {q \in cases : /\ ~ManualOnCall(q[1], q[2])
                           /\ ~ManualTarget(q)
                           /\ DayVars(vm, q[1], q[3]) # {}}}

\* x, the set of variables equal to 1, satisfies a constraint
Satisfies(con, x) ==
    IF con.k = "rest_link"
    THEN Cardinality(con.vs \cap x) <= con.n * (1 - IF con.oc \cap x # {} THEN 1 ELSE 0)
    ELSE Cardinality(con.vs \cap x) <= con.n

-----------------------------------------------------------------------------
(* The response of _solve_range_impl.  Notes are kept by their fixed text; *)
(* counts and timings inside a note are left out.                           *)

\* rest_day_conflicts is not empty (solver.py 1216-1247)
HasRestDayConflicts(st, pl, ctxs, man) ==
    \E i \in man, j \in man :
        /\ st.assignments[i].rowId \in RestShiftRowIds(st, ctxs)
        /\ st.assignments[j].clinicianId = st.assignments[i].clinicianId
        /\ IsRestDay(RestDays(st, ctxs), st.assignments[i].dateISO,
                     st.assignments[j].dateISO)

\* boundary_conflicts is not empty (solver.py 1737-1781): an on-call duty
\* inside the range, manual or produced, with a manual assignment on a rest
\* day outside the range
HasBoundaryConflicts(st, pl, ctxs, man, x) ==
    LET rest_ids == RestShiftRowIds(st, ctxs)
        on_call == {<<st.assignments[i].clinicianId, st.assignments[i].dateISO>> :
                        i \in {k \in man : st.assignments[k].rowId \in rest_ids}}
                   \cup {<<v.c, v.d>> : v \in {w \in x : w.s \in rest_ids}}
    IN \E oc \in on_call, j \in man :
        /\ oc[2] \in TargetDayIsos(pl)
        /\ st.assignments[j].clinicianId = oc[1]
        /\ st.assignments[j].dateISO \notin TargetDayIsos(pl)
        /\ IsRestDay(RestDays(st, ctxs), oc[2], st.assignments[j].dateISO)

\* orphaned_assignments is not empty (solver.py 886-898)
HasOrphans(st, pl, aivs) ==
    \E i \in DOMAIN st.assignments :
        /\ st.assignments[i].dateISO \in DayIsos(pl)
        /\ ~is_on_vac(st, st.assignments[i].clinicianId, st.assignments[i].dateISO)
        /\ st.assignments[i].rowId \notin DOMAIN aivs

\* notes of a solved model (solver.py 1108-1109, 1309-1310, 1778-1790)
SolvedNotes(pl, infos, orphans, rest_conflicts, boundary_conflicts, total_slack) ==
    (IF orphans
     THEN <<"WARNING: assignment(s) reference slots not in the template">>
     ELSE <<>>)
    \o (IF rest_conflicts
        THEN <<"WARNING: manual assignment(s) violate on-call rest day rules.">>
        ELSE <<>>)
    \o (IF boundary_conflicts
        THEN <<"Rest day conflicts outside the selected range">>
        ELSE <<>>)
    \o (IF total_slack > 0 THEN <<"Could not fill all required slots.">> ELSE <<>>)
    \o (IF pl.only_fill_required /\ SumOver(infos, [i \in infos |-> i.target]) = 0
        THEN <<"No required slots detected for the selected timeframe.">>
        ELSE <<>>)
    \o <<"Solver completed">>

\* notes of a failed solve (solver.py 968-991, 1614-1657, 1721)
FailedNotes(vm, status) ==
    <<"No solution">>
    \o (IF vm = {}
        THEN <<"No assignment variables created.">>
        ELSE <<"No feasible assignment found.">>)
    \o (IF status = "UNKNOWN"
        THEN <<"Solver status: UNKNOWN", "Solver timed out.">>
        ELSE <<"Solver status: INFEASIBLE">>)

-----------------------------------------------------------------------------
(* Documents and requests the solver is run on *)

MaxRequired == 2

MaxRestDays == 1

LongRangeEnd == 14

\* models.py Clinician
Clin(id, quals, vacs, pwt) ==
    [id |-> id, qualifiedClassIds |-> quals, vacations |-> vacs,
     preferredWorkingTimes |-> pwt]

\* models.py TemplateSlot; the column band of a day type has the day type
\* as its id
TSlot(id, loc, day, block, req, start, end, off) ==
    [id |-> id, locationId |-> loc, rowBandId |-> "row-1", colBandId |-> day,
     blockId |-> block, requiredSlots |-> req, startTime |-> start,
     endTime |-> end, endDayOffset |-> off]

\* models.py WeeklyTemplateLocation
TLoc(loc, slots) ==
    [locationId |-> loc,
     rowBands |-> <<[id |-> "row-1", order |-> 1]>>,
     colBands |-> [i \in DOMAIN DAY_TYPES |->
                    [id |-> DAY_TYPES[i], order |-> i, dayType |-> DAY_TYPES[i]]],
     slots |-> slots]

\* models.py SolverSettings
Settings(same_location, rest_enabled, rest_before, rest_after) ==
    [enforceSameLocationPerDay |-> same_location,
     onCallRestEnabled |-> rest_enabled,
     onCallRestClassId |-> "sec-oc",
     onCallRestDaysBefore |-> rest_before,
     onCallRestDaysAfter |-> rest_after]

\* models.py AppState: the fields the solver reads
Doc(clinicians, tlocs, assignments, overrides, settings) ==
    [clinicians |-> clinicians,
     locations |-> <<"loc-1", "loc-2">>,
     locationsEnabled |-> TRUE,
     weeklyTemplate |-> Some([
        blocks |-> <<[id |-> "blk-a", sectionId |-> "sec-a"],
                     [id |-> "blk-b", sectionId |-> "sec-b"],
                     [id |-> "blk-oc", sectionId |-> "sec-oc"]>>,
        locations |-> tlocs]),
     assignments |-> assignments,
     holidays |-> {},
     slotOverridesByKey |-> overrides,
     solverSettings |-> settings]

\* models.py Assignment
Asg(cid, date_iso, row_id) ==
    [clinicianId |-> cid, dateISO |-> date_iso, rowId |-> row_id]

\* models.py SolveRangeRequest
Req(start, end, only_fill) ==
    [startISO |-> start, endISO |-> end, only_fill_required |-> only_fill]

\* Admission: one or two clinicians, a Monday slot each of sections a and b
AdmissionScenarios ==
    LET windows == {<<>>,
            "mon" :> [requirement |-> "mandatory", startTime |-> <<8, 0>>,
                      endTime |-> <<16, 0>>],
            "mon" :> [requirement |-> "mandatory", startTime |-> <<9, 0>>,
                      endTime |-> <<12, 0>>],
            "mon" :> [requirement |-> "preference", startTime |-> <<9, 0>>,
                      endTime |-> <<12, 0>>]}
    IN {[st |-> Doc(<<Clin("c1", q, v, w)>> \o others,
                    <<TLoc("loc-1",
                        <<TSlot("s-a", "loc-1", "mon", "blk-a", r, <<8, 0>>,
                                <<16, 0>>, None),
                          TSlot("s-b", "loc-1", "mon", "blk-b", 1, <<16, 0>>,
                                <<20, 0>>, None)>>)>>,
                    <<>>, <<>>, Settings(TRUE, FALSE, 1, 1)),
         pl |-> Req(0, e, o)] :
            q \in {{}, {"sec-a"}},
            v \in {{}, {[startISO |-> 0, endISO |-> 0]}},
            w \in windows,
            r \in 0..1,
            others \in {<<>>, <<Clin("c2", {"sec-b"}, {}, <<>>)>>},
            e \in {None, Some(0)},
            o \in BOOLEAN}

\* Overlap and location: one clinician, Monday to Wednesday; a day slot, an
\* evening slot that touches or overlaps it, a night slot that ends one or
\* two days later, and early slots on Tuesday and Wednesday
OverlapScenarios ==
    {[st |-> Doc(<<Clin("c1", {"sec-a"}, {}, <<>>)>>,
                 LET here == <<TSlot("s-day", "loc-1", "mon", "blk-a", 1,
                                     <<8, 0>>, <<16, 0>>, None),
                               TSlot("s-night", "loc-1", "mon", "blk-a", 1,
                                     <<20, 0>>, <<6, 0>>, Some(off)),
                               TSlot("s-tue", "loc-1", "tue", "blk-a", 1,
                                     <<4, 0>>, <<12, 0>>, None),
                               TSlot("s-wed", "loc-1", "wed", "blk-a", 1,
                                     <<4, 0>>, <<12, 0>>, None)>>
                     evening == <<TSlot("s-eve", loc, "mon", "blk-a", 1,
                                        eve[1], eve[2], None)>>
                 IN IF loc = "loc-1" THEN <<TLoc("loc-1", here \o evening)>>
                    ELSE <<TLoc("loc-1", here), TLoc(loc, evening)>>,
                 manual, <<>>, Settings(same, FALSE, 1, 1)),
      pl |-> Req(0, Some(2), FALSE)] :
        off \in 1..2,
        eve \in {<<<<16, 0>>, <<20, 0>>>>, <<<<12, 0>>, <<18, 0>>>>},
        loc \in {"loc-1", "loc-2"},
        same \in BOOLEAN,
        manual \in {<<>>, <<Asg("c1", -1, "s-night")>>, <<Asg("c1", 0, "s-day")>>,
                    <<Asg("c1", 1, "s-tue")>>}}

\* Coverage: three clinicians and one Monday slot with a required count, an
\* override and a manual assignment, whose clinician may be on vacation
CoverageScenarios ==
    {[st |-> Doc(<<Clin("c1", {"sec-a"}, {}, <<>>),
                   Clin("c2", {"sec-a"}, {}, <<>>),
                   Clin("c3", {"sec-a"}, v, <<>>)>>,
                 <<TLoc("loc-1",
                     <<TSlot("s-a", "loc-1", "mon", "blk-a", r, <<8, 0>>,
                             <<16, 0>>, None)>>)>>,
                 manual, ovr, Settings(TRUE, FALSE, 1, 1)),
      pl |-> Req(0, Some(0), o)] :
        r \in 0..MaxRequired,
        v \in {{}, {[startISO |-> 0, endISO |-> 0]}},
        manual \in {<<>>, <<Asg("c3", 0, "s-a")>>},
        ovr \in {<<>>, <<"s-a", 0>> :> -1, <<"s-a", 0>> :> 1},
        o \in BOOLEAN}

\* On-call rest: one clinician, Monday to Wednesday; an on-call slot on
\* Tuesday, two slots on Monday and one on Wednesday
RestScenarios ==
    {[st |-> Doc(<<Clin("c1", {"sec-a", "sec-oc"}, {}, <<>>)>>,
                 <<TLoc("loc-1",
                     <<TSlot("s-mon", "loc-1", "mon", "blk-a", 1, <<8, 0>>,
                             <<16, 0>>, None),
                       TSlot("s-mon2", "loc-1", "mon", "blk-a", 1, <<16, 0>>,
                             <<20, 0>>, None),
                       TSlot("s-oc", "loc-1", "tue", "blk-oc", 1, <<8, 0>>,
                             <<16, 0>>, None),
                       TSlot("s-wed", "loc-1", "wed", "blk-a", 1, <<8, 0>>,
                             <<16, 0>>, None)>>)>>,
                 manual, <<>>, Settings(TRUE, enabled, before, after)),
      pl |-> Req(0, Some(2), FALSE)] :
        enabled \in BOOLEAN,
        before \in 0..MaxRestDays,
        after \in 0..MaxRestDays,
        manual \in {<<>>, <<Asg("c1", 1, "s-oc")>>, <<Asg("c1", 0, "s-mon")>>,
                    <<Asg("c1", -1, "s-oc")>>, <<Asg("c1", 3, "s-oc")>>,
                    <<Asg("c1", 1, "s-oc"), Asg("c1", 0, "s-mon")>>}}

\* A range of more than two weeks, which falls back to week-by-week solves:
\* slots on Sundays and Mondays only, either an on-call Sunday slot and a
\* Monday slot or a Sunday night slot and an early Monday slot
LongRangeScenarios ==
    {[st |-> Doc(<<Clin("c1", {"sec-a", "sec-oc"}, {}, <<>>)>>,
                 <<TLoc("loc-1", slots)>>,
                 <<>>, <<>>, Settings(TRUE, enabled, 1, 1)),
      pl |-> Req(0, Some(LongRangeEnd), FALSE)] :
        enabled \in BOOLEAN,
        slots \in {
            <<TSlot("s-oc", "loc-1", "sun", "blk-oc", 1, <<8, 0>>, <<16, 0>>, None),
              TSlot("s-mon", "loc-1", "mon", "blk-a", 1, <<8, 0>>, <<16, 0>>, None)>>,
            <<TSlot("s-night", "loc-1", "sun", "blk-a", 1, <<20, 0>>, <<6, 0>>,
                    Some(1)),
              TSlot("s-mon", "loc-1", "mon", "blk-a", 1, <<4, 0>>, <<12, 0>>,
                    None)>>}}

\* Zero-length slots: one clinician and one Monday with a day slot and a
\* slot whose end is not after its start, at an instant inside the day
\* slot, at its start or at its end; either slot may be assigned by hand
ZeroLengthScenarios ==
    {[st |-> Doc(<<Clin("c1", {"sec-a"}, {}, <<>>)>>,
                 <<TLoc("loc-1",
                        <<TSlot("s-day", "loc-1", "mon", "blk-a", 1,
                                <<8, 0>>, <<16, 0>>, None),
                          TSlot("s-zero", "loc-1", "mon", "blk-a", 1,
                                <<at, 0>>, <<at - back, 0>>, None)>>)>>,
                 manual, <<>>, Settings(TRUE, FALSE, 1, 1)),
      pl |-> Req(0, Some(0), FALSE)] :
        at \in {8, 10, 16},
        back \in {0, 1},
        manual \in {<<>>, <<Asg("c1", 0, "s-day")>>, <<Asg("c1", 0, "s-zero")>>}}

Scenarios ==
    AdmissionScenarios \cup OverlapScenarios \cup CoverageScenarios
    \cup RestScenarios \cup LongRangeScenarios \cup ZeroLengthScenarios

-----------------------------------------------------------------------------
(* _solve_range_impl as a state machine.  impl_pc:                          *)
(*   "load"         before the model is built                               *)
(*   "solve"        the model is built, CP-SAT runs                         *)
(*   "week_loop"    in the week-by-week fallback, between two weeks         *)
(*   "week_return"  a week's solve has returned to the fallback             *)
(*   "done"         the response of the request is returned                 *)

\* the request threads that call solve_range
Callers == {"t1", "t2"}

\* solver.py 73-76: the module globals before any call
OrchInit ==
    /\ call_pc = [t \in Callers |-> "idle"]
    /\ _solver_running_lock = None
    /\ _solver_is_running = FALSE
    /\ _solver_cancel_event = FALSE
    /\ _solver_process = None
    /\ worker_pc = [t \in Callers |-> "none"]
    /\ was_aborted = [t \in Callers |-> FALSE]
    /\ progress_queue = [t \in Callers |-> <<>>]
    /\ cancel_event = [t \in Callers |-> FALSE]
    /\ heartbeat_value = [t \in Callers |-> 0]
    /\ call_result = [t \in Callers |-> None]
    /\ call_error = [t \in Callers |-> FALSE]
    /\ last_solution_assignments = [t \in Callers |-> None]
    /\ relayed = [t \in Callers |-> <<>>]
    /\ call_outcome = [t \in Callers |-> "none"]
    /\ call_exception = [t \in Callers |-> ""]
    /\ worker_had_exited = [t \in Callers |-> FALSE]
    /\ abort_pc = "idle"
    /\ abort_force = FALSE
    /\ abort_status = ""
    /\ abort_saw = [calls |-> {}, running |-> {}, workers |-> {}]

\* no document is being normalized
NormIdle ==
    /\ raw_state = None
    /\ norm_pc = "idle"
    /\ norm_pass = 0
    /\ normalized = None
    /\ changed = FALSE
    /\ stored_data = None
    /\ updated_at = 0

\* the worker is in no week-by-week fallback
FallbackIdle ==
    /\ fallback_pc = "none"
    /\ week_num = 0
    /\ worker_solver_cancel_event = FALSE
    /\ week_cancel_event = FALSE
    /\ week_started_cancelled = FALSE

\* no penalty term is being built
HoursIdle ==
    /\ hours_input = None
    /\ hours_pc = "idle"
    /\ hours_penalty = 0

\* no worker with a watchdog
WatchdogIdle ==
    /\ monitoring = FALSE
    /\ heartbeat_counter = 0
    /\ subprocess_pc = "idle"
    /\ own_cancel_event = FALSE
    /\ watchdog_pc = "idle"
    /\ last_heartbeat = 0
    /\ last_heartbeat_age = 0
    /\ ticked = FALSE

\* no clinician is being normalized
PreferenceIdle ==
    /\ clinician_times = None
    /\ times_pc = "idle"
    /\ preferred_working_times = None

\* generate_ics is not running
IcalIdle ==
    /\ ics_input = None
    /\ ics_pc = "idle"
    /\ ics_index = 0
    /\ lines = <<>>
    /\ ics = <<>>

\* _solve_range_impl has not started
SolverLocalsInit ==
    /\ impl_pc = "load"
    /\ solver_status = ""
    /\ week_cursor = 0
    /\ week_assignments = {}
    /\ week_success = TRUE
    /\ response = [assignments |-> {}, notes |-> <<>>]
    /\ outer = None
    /\ slot_contexts = <<>>
    /\ slot_intervals = <<>>
    /\ all_slot_intervals = <<>>
    /\ manual_assignments = {}
    /\ all_manual_assignments = {}
    /\ var_map = {}
    /\ constraints = {}
    /\ slot_date_info = {}

\* no solve is running in this process
SolverIdle ==
    /\ state = None
    /\ payload = None
    /\ SolverLocalsInit

SolverInit ==
    /\ \E sc \in Scenarios : state = sc.st /\ payload = sc.pl
    /\ SolverLocalsInit
    /\ OrchInit
    /\ NormIdle
    /\ IcalIdle
    /\ PreferenceIdle
    /\ WatchdogIdle
    /\ HoursIdle
    /\ FallbackIdle

\* solver.py 801-1306: the document is loaded and the model is built
BuildModel ==
    /\ impl_pc = "load"
    /\ slot_contexts' = _collect_slot_contexts(state)
    /\ slot_intervals' = SlotIntervals(slot_contexts')
    /\ all_slot_intervals' = AllSlotIntervals(state, slot_intervals')
    /\ manual_assignments' =
            ManualAssignments(state, payload, DOMAIN slot_intervals')
    /\ all_manual_assignments' =
            ManualAssignments(state, payload, DOMAIN all_slot_intervals')
    /\ var_map' = VarMap(state, payload, slot_contexts', slot_intervals')
    /\ slot_date_info' = SlotDateInfo(state, payload, slot_contexts', var_map',
                                      manual_assignments')
    /\ constraints' =
            SameDayVarConstraints(state, var_map', slot_intervals')
            \cup SameDayManualConstraints(state, var_map', slot_intervals',
                    all_slot_intervals', all_manual_assignments')
            \cup CrossDayConstraints(state, payload, var_map', slot_intervals',
                    all_slot_intervals', all_manual_assignments')
            \cup CoverageConstraints(payload, var_map', slot_date_info')
            \cup RestConstraints(state, payload, slot_contexts', var_map',
                    manual_assignments')
    /\ impl_pc' = "solve"
    /\ UNCHANGED <<orchVars, normVars, icalVars, prefVars, watchdogVars,
                   hoursVars, fallbackVars>>
    /\ UNCHANGED <<state, payload, solver_status, week_cursor, week_assignments,
                   week_success, response, outer>>

\* The CP-SAT solve returns a solution (solver.py 1611, 1724-1790).  Any
\* solution of the hard constraints can be returned, an optimal one like
\* any other; the slack variables take any admissible values.
SolveFound ==
    /\ impl_pc = "solve"
    /\ \E x \in SUBSET var_map :
        /\ \A con \in constraints : Satisfies(con, x)
        /\ LET slacks == {i \in slot_date_info : i.missing # 0}
               lo == SumOver(slacks, [i \in slacks |-> SlackFloor(i, x)])
               hi == SumOver(slacks, [i \in slacks |-> i.missing])
           IN \E total_slack \in lo..hi :
                response' =
                    [assignments |-> x,
                     notes |-> SolvedNotes(payload, slot_date_info,
                        HasOrphans(state, payload, all_slot_intervals),
                        HasRestDayConflicts(state, payload, slot_contexts,
                                            manual_assignments),
                        HasBoundaryConflicts(state, payload, slot_contexts,
                                             manual_assignments, x),
                        total_slack)]
    /\ solver_status' = "FEASIBLE"
    /\ impl_pc' = IF outer = None THEN "done" ELSE "week_return"
    /\ UNCHANGED <<orchVars, normVars, icalVars, prefVars, watchdogVars,
                   hoursVars, fallbackVars>>
    /\ UNCHANGED <<state, payload, week_cursor, week_assignments, week_success,
                   outer, slot_contexts, slot_intervals, all_slot_intervals,
                   manual_assignments, all_manual_assignments, var_map,
                   constraints, slot_date_info>>

\* The solve ends without a solution, the time limit or an abort coming
\* first (solver.py 1614-1722); a range of more than 14 days starts the
\* week-by-week fallback
SolveFailed ==
    /\ impl_pc = "solve"
    /\ solver_status' = "UNKNOWN"
    /\ IF TotalDays(payload) > FALLBACK_MIN_DAYS
       THEN /\ impl_pc' = "week_loop"
            /\ outer' = Some(payload)
            /\ week_cursor' = RangeStart(payload)
            /\ week_assignments' = {}
            /\ week_success' = TRUE
            /\ UNCHANGED response
       ELSE /\ impl_pc' = IF outer = None THEN "done" ELSE "week_return"
            /\ response' = [assignments |-> {},
                            notes |-> FailedNotes(var_map, "UNKNOWN")]
            /\ UNCHANGED <<outer, week_cursor, week_assignments, week_success>>
    /\ UNCHANGED <<orchVars, normVars, icalVars, prefVars, watchdogVars,
                   hoursVars, fallbackVars>>
    /\ UNCHANGED <<state, payload, slot_contexts, slot_intervals,
                   all_slot_intervals, manual_assignments,
                   all_manual_assignments, var_map, constraints, slot_date_info>>

\* solver.py 1669-1683: the fallback calls solve_range for the next week,
\* which loads the same document
WeekStart ==
    /\ impl_pc = "week_loop"
    /\ week_cursor <= RangeEnd(outer[1])
    /\ payload' = Req(week_cursor,
                      Some(Min(week_cursor + WEEK_SPAN, RangeEnd(outer[1]))),
                      outer[1].only_fill_required)
    /\ impl_pc' = "load"
    /\ UNCHANGED <<orchVars, normVars, icalVars, prefVars, watchdogVars,
                   hoursVars, fallbackVars>>
    /\ UNCHANGED <<state, solver_status, week_cursor, week_assignments,
                   week_success, response, outer, slot_contexts, slot_intervals,
                   all_slot_intervals, manual_assignments,
                   all_manual_assignments, var_map, constraints, slot_date_info>>

\* solver.py 1684-1697: the week's response is taken over
WeekReturn ==
    /\ impl_pc = "week_return"
    /\ IF "No solution" \in Range(response.notes)
       THEN week_success' = FALSE /\ UNCHANGED week_assignments
       ELSE week_assignments' = week_assignments \cup response.assignments
            /\ UNCHANGED week_success
    /\ week_cursor' = RangeEnd(payload) + 1
    /\ impl_pc' = "week_loop"
    /\ UNCHANGED <<orchVars, normVars, icalVars, prefVars, watchdogVars,
                   hoursVars, fallbackVars>>
    /\ UNCHANGED <<state, payload, solver_status, response, outer, slot_contexts,
                   slot_intervals, all_slot_intervals, manual_assignments,
                   all_manual_assignments, var_map, constraints, slot_date_info>>

\* solver.py 1693-1697: the week's solve_range raises
WeekRaised ==
    /\ impl_pc \in {"load", "solve"}
    /\ outer # None
    /\ week_success' = FALSE
    /\ week_cursor' = RangeEnd(payload) + 1
    /\ impl_pc' = "week_loop"
    /\ UNCHANGED <<orchVars, normVars, icalVars, prefVars, watchdogVars,
                   hoursVars, fallbackVars>>
    /\ UNCHANGED <<state, payload, solver_status, week_assignments, response,
                   outer, slot_contexts, slot_intervals, all_slot_intervals,
                   manual_assignments, all_manual_assignments, var_map,
                   constraints, slot_date_info>>

\* solver.py 1699-1715: the fallback returns the response of the request
FallbackReturn ==
    /\ impl_pc = "week_loop"
    /\ week_cursor > RangeEnd(outer[1])
    /\ impl_pc' = "done"
    /\ payload' = outer[1]
    /\ response' =
        [assignments |-> week_assignments,
         notes |-> IF week_success /\ week_assignments # {}
                   THEN <<"Full-range solver failed. Trying week-by-week...",
                          "Week-by-week solving completed successfully">>
                   ELSE <<"No solution",
                          "Full-range solver failed. Trying week-by-week...",
                          "Week-by-week solving also failed.">>]
    /\ UNCHANGED <<orchVars, normVars, icalVars, prefVars, watchdogVars,
                   hoursVars, fallbackVars>>
    /\ UNCHANGED <<state, solver_status, week_cursor, week_assignments,
                   week_success, outer, slot_contexts, slot_intervals,
                   all_slot_intervals, manual_assignments,
                   all_manual_assignments, var_map, constraints, slot_date_info>>

SolverNext ==
    \/ BuildModel
    \/ SolveFound
    \/ SolveFailed
    \/ WeekStart
    \/ WeekReturn
    \/ WeekRaised
    \/ FallbackReturn

SolverSpec == SolverInit /\ [][SolverNext]_vars

-----------------------------------------------------------------------------
(* The orchestrator: solve_range calls of concurrent request threads, each  *)
(* with the worker process it spawns.  A worker message is a progress       *)
(* (solution) event, the result or an error; n numbers the solution whose   *)
(* assignments the message carries.                                         *)

MaxSolutions == 1

MaxHeartbeat == 1

\* a callback that never stops the search
StopsSearch_Never(cancel_is_set) == FALSE

\* solver.py 1598-1601: the callback calls StopSearch when the flag is set
StopsSearch(cancel_is_set) == cancel_is_set

\* solver.py 1724-1735: the response carries the values of the solver's
\* final solution, the last one the callback was invoked for
FinalSolution(last_captured) == last_captured

\* solution events the worker of call t has put on its queue so far
Produced(t) ==
    Cardinality({i \in DOMAIN progress_queue[t] :
                    /\ progress_queue[t][i].type = "progress"
                    /\ progress_queue[t][i].event = "solution"})
    + Cardinality({i \in DOMAIN relayed[t] : relayed[t][i].event = "solution"})

Event(event, n, status) == [event |-> event, n |-> n, status |-> status]

\* solver.py 672-681 (and 654-662): one message taken from the queue
ConsumeOne(msg, loc) ==
    CASE msg.type = "progress" ->
            [loc EXCEPT !.relayed = Append(@, Event(msg.event, msg.n, "")),
                        !.last = IF msg.event = "solution" THEN Some(msg.n)
                                 ELSE @]
      [] msg.type = "result" ->
            [loc EXCEPT !.result = Some([assignments |-> msg.n,
                                         aborted |-> FALSE])]
      [] OTHER -> [loc EXCEPT !.error = TRUE]

\* a drain that takes the newest message first
RECURSIVE Drain_NewestFirst(_, _)
Drain_NewestFirst(msgs, loc) ==
    IF msgs = <<>> THEN loc
    ELSE Drain_NewestFirst(SubSeq(msgs, 1, Len(msgs) - 1),
                           ConsumeOne(msgs[Len(msgs)], loc))

\* solver.py 652-664: the remaining messages are drained in queue order
RECURSIVE Drain(_, _)
Drain(msgs, loc) ==
    IF msgs = <<>> THEN loc
    ELSE Drain(Tail(msgs), ConsumeOne(Head(msgs), loc))

Locals(t) ==
    [relayed |-> relayed[t], last |-> last_solution_assignments[t],
     result |-> call_result[t], error |-> call_error[t]]

\* solver.py 603: the request thread takes the lock
AcquireLock(t) ==
    /\ call_pc[t] = "idle"
    /\ _solver_running_lock = None
    /\ _solver_running_lock' = Some(t)
    /\ call_pc' = [call_pc EXCEPT ![t] = "locked"]
    /\ UNCHANGED <<_solver_is_running, _solver_cancel_event, _solver_process,
                   worker_pc, progress_queue, cancel_event, heartbeat_value,
                   call_result, call_error, last_solution_assignments,
                   relayed, call_outcome>>
    /\ UNCHANGED <<historyVars, abortVars, solverVars, normVars, icalVars,
                   prefVars, watchdogVars, hoursVars, fallbackVars>>

\* solver.py 604: the running flag is set
SetRunning(t) ==
    /\ call_pc[t] = "locked"
    /\ _solver_is_running' = TRUE
    /\ call_pc' = [call_pc EXCEPT ![t] = "flagged"]
    /\ UNCHANGED <<_solver_running_lock, _solver_cancel_event,
                   _solver_process, worker_pc, progress_queue, cancel_event,
                   heartbeat_value, call_result, call_error,
                   last_solution_assignments, relayed, call_outcome>>
    /\ UNCHANGED <<historyVars, abortVars, solverVars, normVars, icalVars,
                   prefVars, watchdogVars, hoursVars, fallbackVars>>

\* solver.py 605: the global cancel event is cleared and the lock released
ClearCancelEvent(t) ==
    /\ call_pc[t] = "flagged"
    /\ _solver_cancel_event' = FALSE
    /\ _solver_running_lock' = None
    /\ call_pc' = [call_pc EXCEPT ![t] = "start"]
    /\ UNCHANGED <<_solver_is_running, _solver_process, worker_pc,
                   progress_queue, cancel_event, heartbeat_value, call_result,
                   call_error, last_solution_assignments, relayed,
                   call_outcome>>
    /\ UNCHANGED <<historyVars, abortVars, solverVars, normVars, icalVars,
                   prefVars, watchdogVars, hoursVars, fallbackVars>>

\* solver.py 608-617: start event, then the call's queue, flag and counter
BroadcastStart(t) ==
    /\ call_pc[t] = "start"
    /\ relayed' = [relayed EXCEPT ![t] = Append(@, Event("start", 0, ""))]
    /\ progress_queue' = [progress_queue EXCEPT ![t] = <<>>]
    /\ cancel_event' = [cancel_event EXCEPT ![t] = FALSE]
    /\ heartbeat_value' = [heartbeat_value EXCEPT ![t] = 0]
    /\ call_pc' = [call_pc EXCEPT ![t] = "spawn"]
    /\ UNCHANGED <<_solver_running_lock, _solver_is_running,
                   _solver_cancel_event, _solver_process, worker_pc,
                   call_result, call_error, last_solution_assignments,
                   call_outcome>>
    /\ UNCHANGED <<historyVars, abortVars, solverVars, normVars, icalVars,
                   prefVars, watchdogVars, hoursVars, fallbackVars>>

\* solver.py 620-636: the worker is spawned and the global names it
Spawn(t) ==
    /\ call_pc[t] = "spawn"
    /\ _solver_process' = Some(t)
    /\ worker_pc' = [worker_pc EXCEPT ![t] = "started"]
    /\ call_result' = [call_result EXCEPT ![t] = None]
    /\ call_error' = [call_error EXCEPT ![t] = FALSE]
    /\ last_solution_assignments' =
            [last_solution_assignments EXCEPT ![t] = None]
    /\ call_pc' = [call_pc EXCEPT ![t] = "monitor"]
    /\ UNCHANGED <<_solver_running_lock, _solver_is_running,
                   _solver_cancel_event, progress_queue, cancel_event,
                   heartbeat_value, relayed, call_outcome>>
    /\ UNCHANGED <<historyVars, abortVars, solverVars, normVars, icalVars,
                   prefVars, watchdogVars, hoursVars, fallbackVars>>

\* solver.py 620-631: Process.start() raises (the operating system refuses
\* the new process).  The handle is already assigned; the statement is
\* outside the try block, so the exception leaves solve_range at once.
SpawnFails(t) ==
    /\ call_pc[t] = "spawn"
    /\ _solver_process' = Some(t)
    /\ call_outcome' = [call_outcome EXCEPT ![t] = "raised"]
    /\ call_exception' = [call_exception EXCEPT ![t] = "spawn_failed"]
    /\ call_pc' = [call_pc EXCEPT ![t] = "done"]
    /\ UNCHANGED <<_solver_running_lock, _solver_is_running,
                   _solver_cancel_event, worker_pc, progress_queue,
                   cancel_event, heartbeat_value, call_result, call_error,
                   last_solution_assignments, relayed, worker_had_exited,
                   was_aborted>>
    /\ UNCHANGED <<abortVars, solverVars, normVars, icalVars, prefVars,
                   watchdogVars, hoursVars, fallbackVars>>

\* Process.is_alive()
Alive(u) ==
    worker_pc[u] \in {"started", "running", "fallback", "stopped", "finishing"}

SetLocals(t, loc) ==
    /\ relayed' = [relayed EXCEPT ![t] = loc.relayed]
    /\ last_solution_assignments' =
            [last_solution_assignments EXCEPT ![t] = loc.last]
    /\ call_result' = [call_result EXCEPT ![t] = loc.result]
    /\ call_error' = [call_error EXCEPT ![t] = loc.error]

\* solver.py 640-681: one iteration of the monitor loop.  The heartbeat
\* counter is capped at MaxHeartbeat.  The liveness test reads the global
\* handle: with no handle it raises, with a dead process the loop drains
\* the call's queue and ends.
MonitorTick(t) ==
    /\ call_pc[t] = "monitor"
    /\ heartbeat_value' =
            [heartbeat_value EXCEPT ![t] = Min(@ + 1, MaxHeartbeat)]
    /\ cancel_event' = IF _solver_cancel_event
                       THEN [cancel_event EXCEPT ![t] = TRUE]
                       ELSE cancel_event
    /\ IF _solver_process = None
       THEN /\ call_pc' = [call_pc EXCEPT ![t] = "except"]
            /\ call_exception' =
                    [call_exception EXCEPT ![t] = "attribute_error"]
            /\ worker_had_exited' = [worker_had_exited EXCEPT
                                        ![t] = (worker_pc[t] = "exited")]
            /\ UNCHANGED <<progress_queue, relayed, call_result, call_error,
                           last_solution_assignments, was_aborted>>
       ELSE IF ~Alive(_solver_process[1])
       THEN /\ SetLocals(t, Drain(progress_queue[t], Locals(t)))
            /\ progress_queue' = [progress_queue EXCEPT ![t] = <<>>]
            /\ call_pc' = [call_pc EXCEPT ![t] = "joined"]
            /\ worker_had_exited' = [worker_had_exited EXCEPT
                                        ![t] = (worker_pc[t] = "exited")]
            /\ UNCHANGED <<call_exception, was_aborted>>
       ELSE IF progress_queue[t] # <<>>
       THEN /\ SetLocals(t, ConsumeOne(Head(progress_queue[t]), Locals(t)))
            /\ progress_queue' = [progress_queue EXCEPT ![t] = Tail(@)]
            /\ UNCHANGED <<call_pc, historyVars>>
       ELSE UNCHANGED <<call_pc, progress_queue, relayed, call_result,
                        call_error, last_solution_assignments, historyVars>>
    /\ UNCHANGED <<_solver_running_lock, _solver_is_running,
                   _solver_cancel_event, _solver_process, worker_pc,
                   call_outcome>>
    /\ UNCHANGED <<abortVars, solverVars, normVars, icalVars, prefVars,
                   watchdogVars, hoursVars, fallbackVars>>

\* solver.py 684-710: join, then the response or an exception
AfterLoop(t) ==
    /\ call_pc[t] = "joined"
    /\ LET recovered ==
            IF call_result[t] = None /\ last_solution_assignments[t] # None
            THEN Some([assignments |-> last_solution_assignments[t][1],
                       aborted |-> TRUE])
            ELSE call_result[t]
           raised == IF _solver_process = None THEN "attribute_error"
                     ELSE IF call_error[t] THEN "worker_error"
                     ELSE IF recovered = None THEN "no_result"
                     ELSE ""
       IN IF raised # ""
          THEN /\ call_pc' = [call_pc EXCEPT ![t] = "except"]
               /\ call_exception' = [call_exception EXCEPT ![t] = raised]
               /\ UNCHANGED <<call_result, relayed, call_outcome>>
          ELSE /\ call_result' = [call_result EXCEPT ![t] = recovered]
               /\ relayed' = [relayed EXCEPT
                        ![t] = Append(@, Event("complete", 0, "success"))]
               /\ call_outcome' = [call_outcome EXCEPT ![t] = "response"]
               /\ call_pc' = [call_pc EXCEPT ![t] = "finally"]
               /\ UNCHANGED call_exception
    /\ UNCHANGED <<_solver_running_lock, _solver_is_running,
                   _solver_cancel_event, _solver_process, worker_pc,
                   progress_queue, cancel_event, heartbeat_value, call_error,
                   last_solution_assignments, worker_had_exited,
                   was_aborted>>
    /\ UNCHANGED <<abortVars, solverVars, normVars, icalVars, prefVars,
                   watchdogVars, hoursVars, fallbackVars>>

\* solver.py 712-720: the error event is broadcast and the exception re-raised
Except(t) ==
    /\ call_pc[t] = "except"
    /\ relayed' = [relayed EXCEPT
                        ![t] = Append(@, Event("complete", 0, "error"))]
    /\ call_outcome' = [call_outcome EXCEPT ![t] = "raised"]
    /\ call_pc' = [call_pc EXCEPT ![t] = "finally"]
    /\ UNCHANGED <<_solver_running_lock, _solver_is_running,
                   _solver_cancel_event, _solver_process, worker_pc,
                   progress_queue, cancel_event, heartbeat_value, call_result,
                   call_error, last_solution_assignments>>
    /\ UNCHANGED <<historyVars, abortVars, solverVars, normVars, icalVars,
                   prefVars, watchdogVars, hoursVars, fallbackVars>>

\* solver.py 723, 95-112: _cleanup_solver_process ends the process the
\* global names and resets the globals
Cleanup(t) ==
    /\ call_pc[t] = "finally"
    /\ IF _solver_process = None
       THEN UNCHANGED <<_solver_process, _solver_is_running, worker_pc>>
       ELSE /\ worker_pc' = IF Alive(_solver_process[1])
                            THEN [worker_pc EXCEPT
                                        ![_solver_process[1]] = "exited"]
                            ELSE worker_pc
            /\ _solver_process' = None
            /\ _solver_is_running' = FALSE
    /\ call_pc' = [call_pc EXCEPT ![t] = "finally_lock"]
    /\ UNCHANGED <<_solver_running_lock, _solver_cancel_event, progress_queue,
                   cancel_event, heartbeat_value, call_result, call_error,
                   last_solution_assignments, relayed, call_outcome>>
    /\ UNCHANGED <<historyVars, abortVars, solverVars, normVars, icalVars,
                   prefVars, watchdogVars, hoursVars, fallbackVars>>

\* solver.py 726: the lock is taken again
FinallyAcquire(t) ==
    /\ call_pc[t] = "finally_lock"
    /\ _solver_running_lock = None
    /\ _solver_running_lock' = Some(t)
    /\ call_pc' = [call_pc EXCEPT ![t] = "finally_locked"]
    /\ UNCHANGED <<_solver_is_running, _solver_cancel_event, _solver_process,
                   worker_pc, progress_queue, cancel_event, heartbeat_value,
                   call_result, call_error, last_solution_assignments,
                   relayed, call_outcome>>
    /\ UNCHANGED <<historyVars, abortVars, solverVars, normVars, icalVars,
                   prefVars, watchdogVars, hoursVars, fallbackVars>>

\* solver.py 727-729: the globals are reset and the call ends
FinallyClear(t) ==
    /\ call_pc[t] = "finally_locked"
    /\ _solver_is_running' = FALSE
    /\ _solver_process' = None
    /\ _solver_cancel_event' = FALSE
    /\ _solver_running_lock' = None
    /\ call_pc' = [call_pc EXCEPT ![t] = "done"]
    /\ UNCHANGED <<worker_pc, progress_queue, cancel_event, heartbeat_value,
                   call_result, call_error, last_solution_assignments,
                   relayed, call_outcome>>
    /\ UNCHANGED <<historyVars, abortVars, solverVars, normVars, icalVars,
                   prefVars, watchdogVars, hoursVars, fallbackVars>>

\* solver.py 335-341, 798: the worker reports the phases of its preparation
\* (one event stands for them)
WorkerPhase(t) ==
    /\ worker_pc[t] = "started"
    /\ progress_queue' = [progress_queue EXCEPT
            ![t] = Append(@, [type |-> "progress", event |-> "phase", n |-> 0])]
    /\ worker_pc' = [worker_pc EXCEPT ![t] = "running"]
    /\ UNCHANGED <<call_pc, _solver_running_lock, _solver_is_running,
                   _solver_cancel_event, _solver_process, cancel_event,
                   heartbeat_value, call_result, call_error,
                   last_solution_assignments, relayed, call_outcome>>
    /\ UNCHANGED <<historyVars, abortVars, solverVars, normVars, icalVars,
                   prefVars, watchdogVars, hoursVars, fallbackVars>>

\* solver.py 1571-1601: on_solution_callback captures the solution, reports
\* it, and stops the search when the cancellation flag is set
WorkerSolution(t) ==
    /\ worker_pc[t] = "running"
    /\ Produced(t) < MaxSolutions
    /\ progress_queue' = [progress_queue EXCEPT
            ![t] = Append(@, [type |-> "progress", event |-> "solution",
                              n |-> Produced(t) + 1])]
    /\ was_aborted' = [was_aborted EXCEPT ![t] = cancel_event[t]]
    /\ worker_pc' = [worker_pc EXCEPT
            ![t] = IF StopsSearch(cancel_event[t]) THEN "stopped" ELSE @]
    /\ UNCHANGED <<call_pc, _solver_running_lock, _solver_is_running,
                   _solver_cancel_event, _solver_process, cancel_event,
                   heartbeat_value, call_result, call_error,
                   last_solution_assignments, relayed, call_outcome,
                   call_exception, worker_had_exited>>
    /\ UNCHANGED <<abortVars, solverVars, normVars, icalVars, prefVars,
                   watchdogVars, hoursVars, fallbackVars>>

\* solver.py 343-346, 1724-1735: the search has ended and the worker sends
\* its result with the assignments of the solver's final solution
WorkerResult(t) ==
    /\ worker_pc[t] \in {"running", "stopped"}
    /\ progress_queue' = [progress_queue EXCEPT
            ![t] = Append(@, [type |-> "result", event |-> "",
                              n |-> FinalSolution(Produced(t))])]
    /\ worker_pc' = [worker_pc EXCEPT ![t] = "finishing"]
    /\ UNCHANGED <<call_pc, _solver_running_lock, _solver_is_running,
                   _solver_cancel_event, _solver_process, cancel_event,
                   heartbeat_value, call_result, call_error,
                   last_solution_assignments, relayed, call_outcome>>
    /\ UNCHANGED <<historyVars, abortVars, solverVars, normVars, icalVars,
                   prefVars, watchdogVars, hoursVars, fallbackVars>>

\* solver.py 347-349: the solve raised in the worker
WorkerError(t) ==
    /\ worker_pc[t] \in {"started", "running", "stopped"}
    /\ progress_queue' = [progress_queue EXCEPT
            ![t] = Append(@, [type |-> "error", event |-> "", n |-> 0])]
    /\ worker_pc' = [worker_pc EXCEPT ![t] = "finishing"]
    /\ UNCHANGED <<call_pc, _solver_running_lock, _solver_is_running,
                   _solver_cancel_event, _solver_process, cancel_event,
                   heartbeat_value, call_result, call_error,
                   last_solution_assignments, relayed, call_outcome>>
    /\ UNCHANGED <<historyVars, abortVars, solverVars, normVars, icalVars,
                   prefVars, watchdogVars, hoursVars, fallbackVars>>

\* solver.py 350-351: the worker process ends
WorkerExit(t) ==
    /\ worker_pc[t] = "finishing"
    /\ worker_pc' = [worker_pc EXCEPT ![t] = "exited"]
    /\ UNCHANGED <<call_pc, _solver_running_lock, _solver_is_running,
                   _solver_cancel_event, _solver_process, progress_queue,
                   cancel_event, heartbeat_value, call_result, call_error,
                   last_solution_assignments, relayed, call_outcome>>
    /\ UNCHANGED <<historyVars, abortVars, solverVars, normVars, icalVars,
                   prefVars, watchdogVars, hoursVars, fallbackVars>>

callVars == <<call_pc, _solver_running_lock, _solver_is_running,
              heartbeat_value, progress_queue, call_result, call_error,
              last_solution_assignments, relayed, call_outcome>>

\* a solve_range call has been entered and has not ended
InProgress(t) == call_pc[t] \notin {"idle", "done"}

\* a solve_range call is between setting the running flag (604) and its
\* finally block (721)
Running(t) ==
    call_pc[t] \in {"flagged", "start", "spawn", "monitor", "joined", "except"}

AbortReturns(status) ==
    /\ abort_status' = status
    /\ abort_pc' = "returned"

\* solver.py 378: the handler reads the running flag, without the lock
AbortReadFlag ==
    /\ abort_pc = "idle"
    /\ \E force \in BOOLEAN : abort_force' = force
    /\ abort_saw' = [calls |-> {t \in Callers : InProgress(t)},
                     running |-> {t \in Callers : Running(t)},
                     workers |-> {t \in Callers : Running(t) /\ Alive(t)}]
    /\ IF _solver_is_running
       THEN abort_pc' = "set" /\ UNCHANGED abort_status
       ELSE AbortReturns("no_solver_running")
    /\ UNCHANGED <<callVars, historyVars, _solver_cancel_event,
                   _solver_process, worker_pc, cancel_event>>
    /\ UNCHANGED <<solverVars, normVars, icalVars, prefVars, watchdogVars,
                   hoursVars, fallbackVars>>

\* solver.py 379-380, 392: the global cancel event is set; a request
\* without force returns
AbortSetEvent ==
    /\ abort_pc = "set"
    /\ _solver_cancel_event' = TRUE
    /\ IF abort_force
       THEN abort_pc' = "test" /\ UNCHANGED abort_status
       ELSE AbortReturns("abort_requested")
    /\ UNCHANGED <<callVars, historyVars, abort_force, abort_saw,
                   _solver_process, worker_pc, cancel_event>>
    /\ UNCHANGED <<solverVars, normVars, icalVars, prefVars, watchdogVars,
                   hoursVars, fallbackVars>>

\* solver.py 380, 392: with force, the handle is tested
AbortTestProcess ==
    /\ abort_pc = "test"
    /\ IF _solver_process # None
       THEN abort_pc' = "terminate" /\ UNCHANGED abort_status
       ELSE AbortReturns("abort_requested")
    /\ UNCHANGED <<callVars, historyVars, abort_force, abort_saw,
                   _solver_cancel_event, _solver_process, worker_pc,
                   cancel_event>>
    /\ UNCHANGED <<solverVars, normVars, icalVars, prefVars, watchdogVars,
                   hoursVars, fallbackVars>>

\* solver.py 382-385, 389-391, 292-297: the handle is read again.  Without a
\* handle the attribute access raises and the handler returns
\* force_kill_error; a dead process is left alone; a live one gets SIGTERM,
\* which ends a worker that has not installed its handler yet and sets the
\* cancellation flag of any other.
AbortTerminate ==
    /\ abort_pc = "terminate"
    /\ IF _solver_process = None
       THEN /\ AbortReturns("force_kill_error")
            /\ UNCHANGED <<worker_pc, cancel_event>>
       ELSE LET p == _solver_process[1]
            IN IF ~Alive(p)
               THEN /\ AbortReturns("force_killed")
                    /\ UNCHANGED <<worker_pc, cancel_event>>
               ELSE /\ abort_pc' = "join"
                    /\ UNCHANGED abort_status
                    /\ IF worker_pc[p] = "started"
                       THEN /\ worker_pc' = [worker_pc EXCEPT ![p] = "exited"]
                            /\ UNCHANGED cancel_event
                       ELSE /\ cancel_event' =
                                    [cancel_event EXCEPT ![p] = TRUE]
                            /\ UNCHANGED worker_pc
    /\ UNCHANGED <<callVars, historyVars, abort_force, abort_saw,
                   _solver_cancel_event, _solver_process>>
    /\ UNCHANGED <<solverVars, normVars, icalVars, prefVars, watchdogVars,
                   hoursVars, fallbackVars>>

\* solver.py 385-391: join, and kill when the process is still alive; each
\* statement reads the handle again
AbortJoin ==
    /\ abort_pc = "join"
    /\ IF _solver_process = None
       THEN /\ AbortReturns("force_kill_error")
            /\ UNCHANGED worker_pc
       ELSE /\ AbortReturns("force_killed")
            /\ worker_pc' = IF Alive(_solver_process[1])
                            THEN [worker_pc EXCEPT
                                        ![_solver_process[1]] = "exited"]
                            ELSE worker_pc
    /\ UNCHANGED <<callVars, historyVars, abort_force, abort_saw,
                   _solver_cancel_event, _solver_process, cancel_event>>
    /\ UNCHANGED <<solverVars, normVars, icalVars, prefVars, watchdogVars,
                   hoursVars, fallbackVars>>

OrchestratorInit ==
    /\ OrchInit
    /\ SolverIdle
    /\ NormIdle
    /\ IcalIdle
    /\ PreferenceIdle
    /\ WatchdogIdle
    /\ HoursIdle
    /\ FallbackIdle

\* one step of the solve_range call of thread t or of its worker
CallStep(t) ==
    \/ AcquireLock(t)
    \/ SetRunning(t)
    \/ ClearCancelEvent(t)
    \/ BroadcastStart(t)
    \/ Spawn(t)
    \/ SpawnFails(t)
    \/ MonitorTick(t)
    \/ AfterLoop(t)
    \/ Except(t)
    \/ Cleanup(t)
    \/ FinallyAcquire(t)
    \/ FinallyClear(t)
    \/ WorkerPhase(t)
    \/ WorkerSolution(t)
    \/ WorkerResult(t)
    \/ WorkerError(t)
    \/ WorkerExit(t)

\* concurrent solve_range calls, no abort request
OrchestratorNext == \E t \in Callers : CallStep(t)

OrchestratorSpec == OrchestratorInit /\ [][OrchestratorNext]_vars

\* one solve_range call and one abort_solver request, interleaved
AbortNext ==
    \/ AbortReadFlag
    \/ AbortSetEvent
    \/ AbortTestProcess
    \/ AbortTerminate
    \/ AbortJoin
    \/ CallStep("t1")

AbortSpec == OrchestratorInit /\ [][AbortNext]_vars

-----------------------------------------------------------------------------
(* The state normalizer (state.py, _normalize_state).  An id is the         *)
(* sequence of the pieces of its string; the separators "::" and "__", the  *)
(* prefix "pool-" and the pieces the code puts around ids are pieces of     *)
(* their own, so that concatenating, splitting and searching ids are the    *)
(* operations of the code.  The empty sequence is the empty string, and     *)
(* stands for None where the code tests truthiness.  A dict is a function.  *)
(* Of a document the model keeps locations, rows with their sub-shifts,     *)
(* assignments, minimum slots, slot overrides, the weekly template and the  *)
(* holidays; names, labels and colours, clinicians, solver settings and     *)
(* solver rules are left out.                                               *)

\* constants.py is not under src/; the value is the one the spec gives
\* ("legacy row identifiers of shape {classId}::{subShiftId}")
SHIFT_ROW_SEPARATOR == "::"

Has(id, piece) == \E i \in DOMAIN id : id[i] = piece

\* str.split(piece, 1) of an id that holds the piece
SplitOnce(id, piece) ==
    LET i == CHOOSE k \in DOMAIN id :
                id[k] = piece /\ \A j \in 1..(k - 1) : id[j] # piece
    IN <<SubSeq(id, 1, i - 1), SubSeq(id, i + 1, Len(id))>>

\* the decimal string of a small positive number
NumStr(n) == <<"1", "2", "3", "4", "5", "6", "7", "8", "9">>[n]

_build_shift_row_id(class_id, sub_shift_id) ==
    class_id \o <<SHIFT_ROW_SEPARATOR>> \o sub_shift_id

_parse_shift_row_id(row_id) ==
    IF ~Has(row_id, SHIFT_ROW_SEPARATOR) THEN <<row_id, <<>>>>
    ELSE SplitOnce(row_id, SHIFT_ROW_SEPARATOR)

_format_minutes(total_minutes) ==
    <<(total_minutes % 1440) \div 60, (total_minutes % 1440) % 60>>

_ensure_locations(locations) ==
    LET Keep(i) == /\ locations[i] # <<>>
                   /\ \A j \in 1..(i - 1) : locations[j] # locations[i]
        by_id == FilterIdx(locations, Keep, 1)
    IN IF <<DEFAULT_LOCATION_ID>> \in Range(by_id) THEN by_id
       ELSE Append(by_id, <<DEFAULT_LOCATION_ID>>)

\* list.sort(key=lambda item: item.order), which is stable
RECURSIVE SortByOrder(_)
SortByOrder(s) ==
    IF s = <<>> THEN <<>>
    ELSE LET rest == SortByOrder(SubSeq(s, 1, Len(s) - 1))
             x == s[Len(s)]
             n == Cardinality({i \in DOMAIN rest : rest[i].order <= x.order})
         IN SubSeq(rest, 1, n) \o <<x>> \o SubSeq(rest, n + 1, Len(rest))

_normalize_template_row_bands(row_bands) ==
    LET Keep(i) == row_bands[i].id # <<>>
        next_bands == SortByOrder(FilterIdx(row_bands, Keep, 1))
    IN [i \in DOMAIN next_bands |-> [id |-> next_bands[i].id, order |-> i]]

_normalize_template_col_bands(col_bands) ==
    LET OfDay(d) ==
            LET Keep(i) == /\ col_bands[i].id # <<>>
                           /\ col_bands[i].dayType = DAY_TYPES[d]
                bands == SortByOrder(FilterIdx(col_bands, Keep, 1))
            IN [i \in DOMAIN bands |->
                    [id |-> bands[i].id, order |-> i, dayType |-> DAY_TYPES[d]]]
    IN Flatten([d \in DOMAIN DAY_TYPES |-> OfDay(d)])

\* state.py 286-301
_normalize_legacy_col_bands(col_bands) ==
    LET Keep(i) == col_bands[i].id # <<>>
        next_bands == SortByOrder(FilterIdx(col_bands, Keep, 1))
    IN [i \in DOMAIN next_bands |->
            [id |-> next_bands[i].id, order |-> i, dayType |-> "mon"]]

_normalize_slot_time(slot) ==
    LET start == _parse_time_to_minutes(slot.startTime)
        end == _parse_time_to_minutes(slot.endTime)
        raw_offset == IF slot.endDayOffset = None THEN 0 ELSE slot.endDayOffset[1]
    IN [startTime |-> IF start = None THEN None ELSE _format_minutes(start[1]),
        endTime |-> IF end = None THEN None ELSE _format_minutes(end[1]),
        endDayOffset |-> Some(Max(0, Min(3, raw_offset)))]

DefaultColBandId(location_id, day_type) ==
    location_id \o <<"-col-", day_type, "-1">>

_ensure_template_location(location_id) ==
    [locationId |-> location_id,
     rowBands |-> [i \in 1..5 |->
            [id |-> location_id \o <<"-row-", NumStr(i)>>, order |-> i]],
     colBands |-> [d \in DOMAIN DAY_TYPES |->
            [id |-> DefaultColBandId(location_id, DAY_TYPES[d]), order |-> 1,
             dayType |-> DAY_TYPES[d]]],
     slots |-> <<>>]

\* state.py 620-687, for sub-shifts without the legacy hours field
RECURSIVE NormalizeSubShiftsFrom(_, _, _)
NormalizeSubShiftsFrom(sub_shifts, i, used_orders) ==
    IF i > Len(sub_shifts) THEN <<>>
    ELSE LET shift == sub_shifts[i]
             free == {c \in 1..3 : c \notin used_orders}
             order == IF shift.order \in used_orders
                      THEN (IF free = {} THEN 0
                            ELSE CHOOSE c \in free : \A o \in free : c <= o)
                      ELSE shift.order
             start == _parse_time_to_minutes(shift.startTime)
             end == _parse_time_to_minutes(shift.endTime)
             start_minutes ==
                IF start = None
                THEN DEFAULT_SUB_SHIFT_START_MINUTES
                        + DEFAULT_SUB_SHIFT_MINUTES * (order - 1)
                ELSE start[1]
             end_minutes == IF end = None
                            THEN start_minutes + DEFAULT_SUB_SHIFT_MINUTES
                            ELSE end[1]
         IN IF order = 0
            THEN NormalizeSubShiftsFrom(sub_shifts, i + 1, used_orders)
            ELSE <<[id |-> IF shift.id = <<>>
                           THEN <<<<"s1", "s2", "s3">>[order]>> ELSE shift.id,
                    order |-> order,
                    startTime |-> _format_minutes(start_minutes),
                    endTime |-> _format_minutes(end_minutes),
                    endDayOffset |->
                        Some(Max(0, Min(3, IF shift.endDayOffset = None THEN 0
                                           ELSE shift.endDayOffset[1])))]>>
                 \o NormalizeSubShiftsFrom(sub_shifts, i + 1,
                                           used_orders \cup {order})

_normalize_sub_shifts(sub_shifts) ==
    IF sub_shifts = <<>>
    THEN <<[id |-> <<"s1">>, order |-> 1,
            startTime |-> _format_minutes(DEFAULT_SUB_SHIFT_START_MINUTES),
            endTime |-> _format_minutes(DEFAULT_SUB_SHIFT_START_MINUTES
                                        + DEFAULT_SUB_SHIFT_MINUTES),
            endDayOffset |-> None]>>
    ELSE SortByOrder(NormalizeSubShiftsFrom(sub_shifts, 1, {}))

ClassRows(rows) ==
    LET Keep(i) == rows[i].kind = "class" IN FilterIdx(rows, Keep, 1)

\* state.py 220-229
RequiredOfDay(min_slots, day_type) ==
    IF day_type \in {"sat", "sun", "holiday"} THEN min_slots.weekend
    ELSE min_slots.weekday

\* the template location and the blocks built from the class rows of a
\* location
_build_default_template_for_location(location_id, class_rows, min_slots_by_row_id) ==
    LET Build(shifts, empty_location) ==
            LET ShiftRowId(k) ==
                    _build_shift_row_id(shifts[k].row_id, shifts[k].shift.id)
                Required(shift_row_id, day_type) ==
                    IF shift_row_id \in DOMAIN min_slots_by_row_id
                    THEN RequiredOfDay(min_slots_by_row_id[shift_row_id], day_type)
                    ELSE 0
                RowBandId(k) == location_id \o <<"-row-", NumStr(k)>>
                BlockId(shift_row_id, day_type) ==
                    <<"block-">> \o shift_row_id \o <<"-", day_type>>
                Slot(k, shift_row_id, shift, day_type) ==
                    [id |-> shift_row_id \o <<"__", day_type>>,
                     locationId |-> location_id,
                     rowBandId |-> RowBandId(k),
                     colBandId |-> DefaultColBandId(location_id, day_type),
                     blockId |-> BlockId(shift_row_id, day_type),
                     requiredSlots |-> Required(shift_row_id, day_type),
                     startTime |-> shift.startTime,
                     endTime |-> shift.endTime,
                     endDayOffset |-> IF shift.endDayOffset = None THEN Some(0)
                                      ELSE shift.endDayOffset]
                Block(k, shift_row_id, row_id, day_type) ==
                    [id |-> BlockId(shift_row_id, day_type),
                     sectionId |-> row_id,
                     requiredSlots |-> Required(shift_row_id, day_type)]
            IN IF shifts = <<>>
               THEN [location |-> empty_location, blocks |-> <<>>]
               ELSE [location |->
                        [locationId |-> location_id,
                         rowBands |-> [k \in DOMAIN shifts |->
                                        [id |-> RowBandId(k), order |-> k]],
                         colBands |-> empty_location.colBands,
                         slots |-> Flatten([k \in DOMAIN shifts |->
                            [d \in DOMAIN DAY_TYPES |->
                                Slot(k, ShiftRowId(k), shifts[k].shift,
                                     DAY_TYPES[d])]])],
                     blocks |-> Flatten([k \in DOMAIN shifts |->
                            [d \in DOMAIN DAY_TYPES |->
                                Block(k, ShiftRowId(k), shifts[k].row_id,
                                      DAY_TYPES[d])]])]
        OfRow(row_id, of_row) ==
            [s \in DOMAIN of_row |-> [row_id |-> row_id, shift |-> of_row[s]]]
    IN Build(Flatten([r \in DOMAIN class_rows |->
                OfRow(class_rows[r].id,
                      _normalize_sub_shifts(class_rows[r].subShifts))]),
             _ensure_template_location(location_id))

\* state.py 282-428: a missing, pre-version-4 or block-less template.  A
\* slot of an existing template location is skipped: TemplateSlot
\* (models.py 133-142) has no sectionId, so the section read at state.py
\* 360 is None, which is no class id.  legacy_slot_id_map stays empty.
LegacyTemplate(template, locations, class_rows, min_slots_by_row_id) ==
    LET Existing(loc_id, row_bands, legacy, defaults) ==
            LET Expand(legacy_col_bands) ==
                    Flatten([b \in DOMAIN legacy_col_bands |->
                        [d \in DOMAIN DAY_TYPES |->
                            [id |-> legacy_col_bands[b].id \o <<"-", DAY_TYPES[d]>>,
                             order |-> legacy_col_bands[b].order,
                             dayType |-> DAY_TYPES[d]]]])
            IN [location |->
                    [locationId |-> loc_id,
                     rowBands |-> IF row_bands = <<>> THEN defaults.rowBands
                                  ELSE row_bands,
                     colBands |-> Expand(
                        IF legacy = <<>>
                        THEN <<[id |-> loc_id \o <<"-col-1">>, order |-> 1,
                                dayType |-> "mon"]>>
                        ELSE legacy),
                     slots |-> <<>>],
                blocks |-> <<>>]
        OfLocation(loc_id, e) ==
            LET KeepRow(i) ==
                    (IF class_rows[i].locationId = <<>>
                     THEN <<DEFAULT_LOCATION_ID>>
                     ELSE class_rows[i].locationId) = loc_id
            IN IF e = 0
               THEN _build_default_template_for_location(loc_id,
                        FilterIdx(class_rows, KeepRow, 1), min_slots_by_row_id)
               ELSE Existing(loc_id,
                        _normalize_template_row_bands(
                            template[1].locations[e].rowBands),
                        _normalize_legacy_col_bands(
                            template[1].locations[e].colBands),
                        _ensure_template_location(loc_id))
        IndexOf(loc_id) ==
            LET P(item) == item.locationId = loc_id
            IN IF template = None THEN 0 ELSE FirstIdx(template[1].locations, P)
        Result(built) ==
            [template |->
                [version |-> 4,
                 blocks |-> Flatten([l \in DOMAIN built |-> built[l].blocks]),
                 locations |-> [l \in DOMAIN built |-> built[l].location]],
             changed |-> TRUE]
    IN Result([l \in DOMAIN locations |->
                OfLocation(locations[l], IndexOf(locations[l]))])

\* a normalization that keeps the blocks of sections that are no class row
NormalizedBlocks_KeepAll(blocks, class_ids) ==
    LET KeepBlock(i) == blocks[i].id # <<>>
    IN FilterIdx(blocks, KeepBlock, 1)

\* state.py 430-457: the blocks of a version-4 template
NormalizedBlocks(blocks, class_ids) ==
    LET KeepBlock(i) == blocks[i].id # <<>> /\ blocks[i].sectionId \in class_ids
        Result(kept) ==
            [i \in DOMAIN kept |-> [kept[i] EXCEPT !.requiredSlots = Max(0, @)]]
    IN Result(FilterIdx(blocks, KeepBlock, 1))

\* state.py 462-535: a location of a version-4 template
CurrentLocation(loc_id, existing, block_ids, defaults) ==
    LET Slots(row_bands, col_bands, bands_changed) ==
            LET KeepSlot(i) ==
                    /\ existing.slots[i].id # <<>>
                    /\ \E b \in DOMAIN row_bands :
                            row_bands[b].id = existing.slots[i].rowBandId
                    /\ \E b \in DOMAIN col_bands :
                            col_bands[b].id = existing.slots[i].colBandId
                    /\ existing.slots[i].blockId \in block_ids
                Normalized(slot, time) ==
                    [id |-> slot.id,
                     locationId |-> loc_id,
                     rowBandId |-> slot.rowBandId,
                     colBandId |-> slot.colBandId,
                     blockId |-> slot.blockId,
                     requiredSlots |-> Max(0, slot.requiredSlots),
                     startTime |-> time.startTime,
                     endTime |-> time.endTime,
                     endDayOffset |-> time.endDayOffset]
                Result(kept) ==
                    [location |->
                        [locationId |-> loc_id, rowBands |-> row_bands,
                         colBands |-> col_bands,
                         slots |-> [i \in DOMAIN kept |->
                            Normalized(kept[i], _normalize_slot_time(kept[i]))]],
                     changed |->
                        \/ bands_changed
                        \/ Len(kept) # Len(existing.slots)
                        \/ \E i \in DOMAIN kept :
                            \/ kept[i].locationId # loc_id
                            \/ kept[i].requiredSlots < 0]
            IN Result(FilterIdx(existing.slots, KeepSlot, 1))
        Bands(normalized_rows, first_cols) ==
            LET MissingDay(d) == \A i \in DOMAIN first_cols :
                                    first_cols[i].dayType # DAY_TYPES[d]
                WithAdded(added) ==
                    Slots(IF normalized_rows = <<>> THEN defaults.rowBands
                          ELSE normalized_rows,
                          _normalize_template_col_bands(first_cols \o added),
                          normalized_rows = <<>> \/ added # <<>>)
            IN WithAdded(FilterIdx(defaults.colBands, MissingDay, 1))
    IN Bands(_normalize_template_row_bands(existing.rowBands),
             _normalize_template_col_bands(existing.colBands))

\* state.py 430-542: a version-4 template with blocks
CurrentTemplate(template, locations, class_rows) ==
    LET class_ids == {class_rows[i].id : i \in DOMAIN class_rows}
        OfLocation(loc_id, e, blocks) ==
            IF e = 0
            THEN [location |-> _ensure_template_location(loc_id),
                  changed |-> TRUE]
            ELSE CurrentLocation(loc_id, template.locations[e],
                    {blocks[i].id : i \in DOMAIN blocks},
                    _ensure_template_location(loc_id))
        IndexOf(loc_id) ==
            LET P(item) == item.locationId = loc_id
            IN FirstIdx(template.locations, P)
        Result(blocks, next_locations) ==
            [template |->
                [version |-> 4, blocks |-> blocks,
                 locations |-> [l \in DOMAIN locations |->
                                    next_locations[l].location]],
             changed |->
                \/ \E i \in DOMAIN template.blocks :
                    /\ template.blocks[i].id # <<>>
                    /\ \/ template.blocks[i].sectionId \notin class_ids
                       \/ template.blocks[i].requiredSlots < 0
                \/ \E l \in DOMAIN locations : next_locations[l].changed
                \/ \E i \in DOMAIN template.locations :
                    template.locations[i].locationId \notin Range(locations)]
        WithBlocks(blocks) ==
            Result(blocks, [l \in DOMAIN locations |->
                        OfLocation(locations[l], IndexOf(locations[l]), blocks)])
    IN WithBlocks(NormalizedBlocks(template.blocks, class_ids))

_normalize_weekly_template(template, locations, rows, min_slots_by_row_id) ==
    IF \/ template = None
       \/ template[1].version < 4
       \/ template[1].blocks = <<>>
    THEN LegacyTemplate(template, locations, ClassRows(rows), min_slots_by_row_id)
    ELSE CurrentTemplate(template[1], locations, ClassRows(rows))

\* the ISO strings of the days 0, 1, ...; day 0 is a Monday
DateISO == <<"2024-01-01", "2024-01-02">>

\* datetime.fromisoformat accepts the string
IsDate(s) == Len(s) = 1 /\ s[1] \in Range(DateISO)

DayOfDate(s) ==
    IF IsDate(s) THEN (CHOOSE d \in DOMAIN DateISO : DateISO[d] = s[1]) - 1
    ELSE 0

ClassRowOf(class_rows, class_id) ==
    LET P(row) == row.id = class_id IN class_rows[LastIdx(class_rows, P)]

ShiftIdsOf(row) == {row.subShifts[i].id : i \in DOMAIN row.subShifts}

\* state.py 776-810: the row id an assignment is kept with, if it is kept
FirstPassRowId(row_id, st) ==
    LET class_rows == ClassRows(st.rows)
        class_row_ids == {class_rows[i].id : i \in DOMAIN class_rows}
        row_ids == {st.rows[i].id : i \in DOMAIN st.rows}
        raw_slot_ids ==
            IF st.weeklyTemplate = None THEN {}
            ELSE LET tls == st.weeklyTemplate[1].locations
                 IN UNION {{tls[l].slots[i].id : i \in DOMAIN tls[l].slots} :
                            l \in DOMAIN tls}
        Fallback(class_id) == ClassRowOf(class_rows, class_id).subShifts[1].id
        first == IF row_id \in class_row_ids /\ ~Has(row_id, SHIFT_ROW_SEPARATOR)
                 THEN _build_shift_row_id(row_id, Fallback(row_id))
                 ELSE row_id
        parsed == _parse_shift_row_id(first)
    IN IF Has(first, SHIFT_ROW_SEPARATOR)
       THEN IF parsed[1] \notin class_row_ids THEN None
            ELSE IF \/ parsed[2] = <<>>
                    \/ parsed[2] \notin ShiftIdsOf(ClassRowOf(class_rows, parsed[1]))
                 THEN Some(_build_shift_row_id(parsed[1], Fallback(parsed[1])))
                 ELSE Some(first)
       ELSE IF \/ first \in class_row_ids
               \/ (first # <<>> /\ first[1] = "pool-")
               \/ first \in row_ids
               \/ first \in raw_slot_ids
            THEN Some(first)
            ELSE None

\* state.py 813-839
NormalizedMinSlots(min_slots, class_rows) ==
    LET class_row_ids == {class_rows[i].id : i \in DOMAIN class_rows}
        shift_rows == UNION {
            {[key |-> _build_shift_row_id(class_rows[i].id,
                                          class_rows[i].subShifts[s].id),
              row_id |-> class_rows[i].id,
              shift_id |-> class_rows[i].subShifts[s].id] :
                s \in DOMAIN class_rows[i].subShifts} : i \in DOMAIN class_rows}
        popped == DOMAIN min_slots \ class_row_ids
        added == {r \in shift_rows : r.key \notin popped}
        Stale(key) ==
            /\ Has(key, SHIFT_ROW_SEPARATOR)
            /\ LET parsed == _parse_shift_row_id(key)
               IN \/ parsed[2] = <<>>
                  \/ parsed[1] \notin class_row_ids
                  \/ parsed[2] \notin
                        ShiftIdsOf(ClassRowOf(class_rows, parsed[1]))
        keys == {key \in popped \cup {r.key : r \in added} : ~Stale(key)}
    IN [key \in keys |->
            IF key \in popped THEN min_slots[key]
            ELSE LET r == CHOOSE r \in added : r.key = key
                 IN IF r.shift_id = <<"s1">> /\ r.row_id \in DOMAIN min_slots
                    THEN min_slots[r.row_id]
                    ELSE [weekday |-> 0, weekend |-> 0]]

\* str.split("__", 1) of an override key (state.py 844, 925)
SplitKey(key) == IF Has(key, "__") THEN SplitOnce(key, "__") ELSE <<key, <<>>>>

\* state.py 843-865: the key an override is kept under, if it is kept, and
\* whether the loop sets changed; pick is the element that
\* next(iter(class_shift_ids)) yields for each class row
FirstPassKey(key, class_rows, pick) ==
    LET class_row_ids == {class_rows[i].id : i \in DOMAIN class_rows}
        row_id == SplitKey(key)[1]
        date_iso == SplitKey(key)[2]
        parsed == _parse_shift_row_id(row_id)
        P(row) == row.id = parsed[1]
        c == LastIdx(class_rows, P)
        Keep(next_row_id, flag) ==
            [key |-> Some(next_row_id \o <<"__">> \o date_iso), changed |-> flag]
    IN IF row_id = <<>> \/ date_iso = <<>>
       THEN [key |-> None, changed |-> FALSE]
       ELSE IF row_id \in class_row_ids /\ ~Has(row_id, SHIFT_ROW_SEPARATOR)
       THEN Keep(_build_shift_row_id(row_id, <<"s1">>), TRUE)
       ELSE IF ~Has(row_id, SHIFT_ROW_SEPARATOR) THEN Keep(row_id, FALSE)
       ELSE IF parsed[2] = <<>> \/ c = 0 THEN [key |-> None, changed |-> TRUE]
       ELSE IF parsed[2] \notin ShiftIdsOf(class_rows[c])
       THEN Keep(_build_shift_row_id(parsed[1], pick[c]), TRUE)
       ELSE Keep(row_id, FALSE)

\* the dict built by next_overrides[key] = next_overrides.get(key, 0) + value
SummedOverrides(overrides, NextKey(_)) ==
    LET kept == {key \in DOMAIN overrides : NextKey(key) # None}
    IN [next_key \in {NextKey(key)[1] : key \in kept} |->
            LET from == {key \in kept : NextKey(key)[1] = next_key}
            IN SumOver(from, [key \in from |-> overrides[key]])]

SlotIds(template) ==
    UNION {{template.locations[l].slots[i].id :
                i \in DOMAIN template.locations[l].slots} :
            l \in DOMAIN template.locations}

PoolRowIds(rows) == {rows[i].id : i \in {j \in DOMAIN rows : rows[j].kind = "pool"}}

\* state.py 881-891: the slot ids of shape {base_id}__{day_type}, which
\* slot_id_map_by_legacy files under base_id
LegacyMapping(slot_ids, row_id) ==
    {s \in slot_ids :
        /\ Cardinality({i \in DOMAIN s : s[i] = "__"}) = 1
        /\ row_id # <<>>
        /\ SplitOnce(s, "__")[1] = row_id
        /\ Len(SplitOnce(s, "__")[2]) = 1
        /\ SplitOnce(s, "__")[2][1] \in Range(DAY_TYPES)}

\* state.py 893-898, given the day type of the date; <<>> is None
_resolve_legacy_slot_id(row_id, day_type, slot_ids) ==
    LET mapping == LegacyMapping(slot_ids, row_id)
        hit == {s \in mapping : SplitOnce(s, "__")[2][1] = day_type}
    IN IF mapping = {} THEN row_id
       ELSE IF hit = {} THEN <<>>
       ELSE CHOOSE s \in hit : TRUE

MappedRowId_KeepUnmapped(assignment, st) == Some(assignment.rowId)

\* state.py 901-918: the row id an assignment is kept with, if it is kept
MappedRowId(assignment, st) ==
    LET slot_ids == SlotIds(st.weeklyTemplate[1])
        mapped == _resolve_legacy_slot_id(assignment.rowId,
                    _get_day_type(assignment.dateISO, st.holidays), slot_ids)
    IN IF assignment.rowId \in PoolRowIds(st.rows) THEN Some(assignment.rowId)
       ELSE IF assignment.rowId \in slot_ids THEN Some(assignment.rowId)
       ELSE IF mapped = <<>> \/ mapped \notin slot_ids THEN None
       ELSE Some(mapped)

\* state.py 924-940: the key an override is kept under, if it is kept
MappedKey(key, st) ==
    LET slot_ids == SlotIds(st.weeklyTemplate[1])
        row_id == SplitKey(key)[1]
        date_iso == SplitKey(key)[2]
        mapped == _resolve_legacy_slot_id(row_id,
                    _get_day_type(DayOfDate(date_iso), st.holidays), slot_ids)
    IN IF row_id = <<>> \/ date_iso = <<>> THEN None
       ELSE IF row_id \in slot_ids THEN Some(key)
       ELSE IF mapped = <<>> \/ mapped \notin slot_ids THEN None
       ELSE Some(mapped \o <<"__">> \o date_iso)

\* state.py 897 raises in datetime.fromisoformat: the override's row id is
\* no slot id, slot_id_map_by_legacy has it, and the rest of the key is no
\* ISO date
MappedKeyRaises(key, st) ==
    /\ SplitKey(key)[1] # <<>>
    /\ SplitKey(key)[2] # <<>>
    /\ SplitKey(key)[1] \notin SlotIds(st.weeklyTemplate[1])
    /\ LegacyMapping(SlotIds(st.weeklyTemplate[1]), SplitKey(key)[1]) # {}
    /\ ~IsDate(SplitKey(key)[2])

\* the assignments a pass keeps, in order, with their new row ids
KeptAssignments(assignments, NextRowId(_)) ==
    LET Keep(i) == NextRowId(assignments[i]) # None
        kept == FilterIdx(assignments, Keep, 1)
    IN [i \in DOMAIN kept |-> [kept[i] EXCEPT !.rowId = NextRowId(kept[i])[1]]]

NormalizePasses == 2

\* state.py 705-715
NormLocations ==
    /\ norm_pc = "locations"
    /\ normalized' = [normalized EXCEPT !.locations = _ensure_locations(@)]
    /\ changed' = (changed \/ normalized'.locations # normalized.locations)
    /\ norm_pc' = "rows"
    /\ UNCHANGED <<raw_state, norm_pass, stored_data, updated_at>>
    /\ UNCHANGED <<solverVars, orchVars, icalVars, prefVars, watchdogVars,
                   hoursVars, fallbackVars>>

\* state.py 732-762
NormRows ==
    /\ norm_pc = "rows"
    /\ LET rows == normalized.rows
           LocationOf(row) ==
                IF \/ row.locationId = <<>>
                   \/ row.locationId \notin Range(normalized.locations)
                   \/ ~normalized.locationsEnabled
                THEN <<DEFAULT_LOCATION_ID>>
                ELSE row.locationId
       IN normalized' = [normalized EXCEPT !.rows =
            [i \in DOMAIN rows |->
                IF rows[i].kind # "class" THEN rows[i]
                ELSE [id |-> rows[i].id, kind |-> "class",
                      locationId |-> LocationOf(rows[i]),
                      subShifts |-> _normalize_sub_shifts(rows[i].subShifts)]]]
    /\ changed' = (changed \/ normalized'.rows # normalized.rows)
    /\ norm_pc' = "assignments"
    /\ UNCHANGED <<raw_state, norm_pass, stored_data, updated_at>>
    /\ UNCHANGED <<solverVars, orchVars, icalVars, prefVars, watchdogVars,
                   hoursVars, fallbackVars>>

\* state.py 769-811
NormAssignments ==
    /\ norm_pc = "assignments"
    /\ LET NextRowId(assignment) == FirstPassRowId(assignment.rowId, normalized)
       IN normalized' = [normalized EXCEPT
                !.assignments = KeptAssignments(@, NextRowId)]
    /\ changed' = (changed \/ normalized'.assignments # normalized.assignments)
    /\ norm_pc' = "min_slots"
    /\ UNCHANGED <<raw_state, norm_pass, stored_data, updated_at>>
    /\ UNCHANGED <<solverVars, orchVars, icalVars, prefVars, watchdogVars,
                   hoursVars, fallbackVars>>

\* state.py 813-839
NormMinSlots ==
    /\ norm_pc = "min_slots"
    /\ normalized' = [normalized EXCEPT !.minSlotsByRowId =
            NormalizedMinSlots(@, ClassRows(normalized.rows))]
    /\ changed' = (changed \/ normalized'.minSlotsByRowId
                                    # normalized.minSlotsByRowId)
    /\ norm_pc' = "overrides"
    /\ UNCHANGED <<raw_state, norm_pass, stored_data, updated_at>>
    /\ UNCHANGED <<solverVars, orchVars, icalVars, prefVars, watchdogVars,
                   hoursVars, fallbackVars>>

\* state.py 841-868
NormOverrides ==
    /\ norm_pc = "overrides"
    /\ LET class_rows == ClassRows(normalized.rows)
           overrides == normalized.slotOverridesByKey
       IN \E pick \in [DOMAIN class_rows ->
                UNION {ShiftIdsOf(class_rows[c]) : c \in DOMAIN class_rows}] :
            /\ \A c \in DOMAIN class_rows : pick[c] \in ShiftIdsOf(class_rows[c])
            /\ LET NextKey(key) == FirstPassKey(key, class_rows, pick).key
                   next_overrides == SummedOverrides(overrides, NextKey)
               IN /\ normalized' = [normalized EXCEPT
                        !.slotOverridesByKey = next_overrides]
                  /\ changed' =
                        \/ changed
                        \/ \E key \in DOMAIN overrides :
                                FirstPassKey(key, class_rows, pick).changed
                        \/ next_overrides # overrides
    /\ norm_pc' = "template"
    /\ UNCHANGED <<raw_state, norm_pass, stored_data, updated_at>>
    /\ UNCHANGED <<solverVars, orchVars, icalVars, prefVars, watchdogVars,
                   hoursVars, fallbackVars>>

\* state.py 870-875
NormTemplate ==
    /\ norm_pc = "template"
    /\ LET result == _normalize_weekly_template(normalized.weeklyTemplate,
                normalized.locations, normalized.rows,
                normalized.minSlotsByRowId)
       IN /\ normalized' = [normalized EXCEPT
                                !.weeklyTemplate = Some(result.template)]
          /\ changed' = (changed \/ result.changed)
    /\ norm_pc' = "map_assignments"
    /\ UNCHANGED <<raw_state, norm_pass, stored_data, updated_at>>
    /\ UNCHANGED <<solverVars, orchVars, icalVars, prefVars, watchdogVars,
                   hoursVars, fallbackVars>>

\* state.py 876-921
MapAssignments ==
    /\ norm_pc = "map_assignments"
    /\ LET NextRowId(assignment) == MappedRowId(assignment, normalized)
       IN normalized' = [normalized EXCEPT
                !.assignments = KeptAssignments(@, NextRowId)]
    /\ changed' = (changed \/ normalized'.assignments # normalized.assignments)
    /\ norm_pc' = "map_overrides"
    /\ UNCHANGED <<raw_state, norm_pass, stored_data, updated_at>>
    /\ UNCHANGED <<solverVars, orchVars, icalVars, prefVars, watchdogVars,
                   hoursVars, fallbackVars>>

\* state.py 923-943 (and, left out, 945-1012); an override whose date does
\* not parse ends the call with an exception
MapOverrides ==
    /\ norm_pc = "map_overrides"
    /\ LET overrides == normalized.slotOverridesByKey
           NextKey(key) == MappedKey(key, normalized)
       IN IF \E key \in DOMAIN overrides : MappedKeyRaises(key, normalized)
          THEN /\ norm_pc' = "raised"
               /\ UNCHANGED <<normalized, changed>>
          ELSE /\ normalized' = [normalized EXCEPT !.slotOverridesByKey =
                                    SummedOverrides(overrides, NextKey)]
               /\ changed' = (changed \/ normalized'.slotOverridesByKey
                                            # overrides)
               /\ norm_pc' = "done"
    /\ UNCHANGED <<raw_state, norm_pass, stored_data, updated_at>>
    /\ UNCHANGED <<solverVars, orchVars, icalVars, prefVars, watchdogVars,
                   hoursVars, fallbackVars>>

\* state.py 1174-1179: _load_state writes the normalized document back when
\* _normalize_state reports a change (_save_state, 1182-1191), and returns it
LoadStateReturn ==
    /\ norm_pc = "done"
    /\ IF changed
       THEN /\ stored_data' = normalized
            /\ updated_at' = norm_pass
       ELSE UNCHANGED <<stored_data, updated_at>>
    /\ norm_pc' = "loaded"
    /\ UNCHANGED <<raw_state, norm_pass, normalized, changed>>
    /\ UNCHANGED <<solverVars, orchVars, icalVars, prefVars, watchdogVars,
                   hoursVars, fallbackVars>>

\* the next solve loads the stored document: _normalize_state is applied
\* to the document it returned
Renormalize ==
    /\ norm_pc = "loaded"
    /\ norm_pass < NormalizePasses
    /\ raw_state' = normalized
    /\ changed' = FALSE
    /\ norm_pass' = norm_pass + 1
    /\ norm_pc' = "locations"
    /\ UNCHANGED <<normalized, stored_data, updated_at>>
    /\ UNCHANGED <<solverVars, orchVars, icalVars, prefVars, watchdogVars,
                   hoursVars, fallbackVars>>

(* Documents the normalizer is run on *)

NShift(id, order) ==
    [id |-> id, order |-> order, startTime |-> <<8, 0>>, endTime |-> <<16, 0>>,
     endDayOffset |-> Some(0)]

NRow(id, kind, location_id, sub_shifts) ==
    [id |-> id, kind |-> kind, locationId |-> location_id,
     subShifts |-> sub_shifts]

NAsg(clinician_id, date_iso, row_id) ==
    [clinicianId |-> clinician_id, dateISO |-> date_iso, rowId |-> row_id]

NSlot(id, col_band_id, block_id, required) ==
    [id |-> id, locationId |-> <<DEFAULT_LOCATION_ID>>, rowBandId |-> <<"r1">>,
     colBandId |-> col_band_id, blockId |-> block_id,
     requiredSlots |-> required, startTime |-> <<8, 0>>, endTime |-> <<16, 0>>,
     endDayOffset |-> None]

\* a version-4 template with blocks, one of them of a section that is gone
CurrentTemplateDoc ==
    [version |-> 4,
     blocks |-> <<[id |-> <<"b1">>, sectionId |-> <<"mri">>, requiredSlots |-> 1],
                  [id |-> <<"b-x">>, sectionId |-> <<"gone">>, requiredSlots |-> 0]>>,
     locations |-> <<
        [locationId |-> <<DEFAULT_LOCATION_ID>>,
         rowBands |-> <<[id |-> <<"r1">>, order |-> 1]>>,
         colBands |-> [d \in DOMAIN DAY_TYPES |->
                [id |-> <<"c-", DAY_TYPES[d]>>, order |-> 1,
                 dayType |-> DAY_TYPES[d]]],
         slots |-> <<NSlot(<<"slot-1">>, <<"c-", "mon">>, <<"b1">>, 1),
                     NSlot(<<"slot-x">>, <<"c-", "tue">>, <<"b-x">>, 0)>>]>>]

\* a version-3 template, which has no blocks
LegacyTemplateDoc ==
    [version |-> 3,
     blocks |-> <<>>,
     locations |-> <<
        [locationId |-> <<DEFAULT_LOCATION_ID>>,
         rowBands |-> <<[id |-> <<"r1">>, order |-> 1]>>,
         colBands |-> <<[id |-> <<"col-1">>, order |-> 1, dayType |-> "mon"]>>,
         slots |-> <<NSlot(<<"slot-1">>, <<"col-1">>, <<>>, 1)>>]>>]

\* a version-4 template without blocks, as a document without class rows
\* has it
EmptyTemplateDoc ==
    [version |-> 4,
     blocks |-> <<>>,
     locations |-> <<_ensure_template_location(<<DEFAULT_LOCATION_ID>>)>>]

NormScenarios ==
    {[locationsEnabled |-> enabled,
      locations |-> locations,
      rows |-> class_rows \o <<NRow(<<"pool-", "rest">>, "pool", <<>>, <<>>)>>,
      assignments |-> assignments,
      minSlotsByRowId |-> min_slots,
      slotOverridesByKey |-> overrides,
      weeklyTemplate |-> template,
      holidays |-> holidays] :
        enabled \in BOOLEAN,
        locations \in {<<>>, <<<<DEFAULT_LOCATION_ID>>>>,
                       <<<<DEFAULT_LOCATION_ID>>, <<"loc-1">>>>},
        class_rows \in {
            <<>>,
            <<NRow(<<"mri">>, "class", <<>>, <<>>)>>,
            <<NRow(<<"mri">>, "class", <<"loc-1">>,
                   <<NShift(<<"s1">>, 1), NShift(<<"s2">>, 2)>>)>>},
        assignments \in {
            <<>>,
            <<NAsg("c1", 0, <<"pool-", "rest">>), NAsg("c1", 0, <<"ghost">>),
              NAsg("c1", 0, <<"slot-1">>)>>,
            <<NAsg("c1", 0, <<"mri">>), NAsg("c1", 1, <<"mri", "::", "s2">>),
              NAsg("c1", 0, <<"pool-", "gone">>)>>,
            <<NAsg("c1", 0, <<"mri", "::", "s1", "__", "mon">>),
              NAsg("c2", 0, <<"pool-", "rest">>)>>},
        min_slots \in {
            <<>>,
            [key \in {<<"mri">>} |-> [weekday |-> 1, weekend |-> 0]]},
        overrides \in {
            <<>>,
            [key \in {<<"slot-1", "__", DateISO[1]>>} |-> 1],
            [key \in {<<"mri", "__", DateISO[1]>>,
                      <<"mri", "::", "s1", "__", DateISO[1]>>} |-> 1],
            [key \in {<<"mri", "::", "s1", "__", "mon", "__", DateISO[1]>>}
                |-> 1]},
        template \in {None, Some(CurrentTemplateDoc), Some(LegacyTemplateDoc),
                      Some(EmptyTemplateDoc)},
        holidays \in {{}, {0}}}

NormalizerInit ==
    /\ raw_state \in NormScenarios
    /\ normalized = raw_state
    /\ changed = FALSE
    /\ norm_pc = "locations"
    /\ norm_pass = 1
    /\ stored_data = raw_state
    /\ updated_at = 0
    /\ SolverIdle
    /\ OrchInit
    /\ IcalIdle
    /\ PreferenceIdle
    /\ WatchdogIdle
    /\ HoursIdle
    /\ FallbackIdle

NormalizerNext ==
    \/ NormLocations
    \/ NormRows
    \/ NormAssignments
    \/ NormMinSlots
    \/ NormOverrides
    \/ NormTemplate
    \/ MapAssignments
    \/ MapOverrides
    \/ LoadStateReturn
    \/ Renormalize

NormalizerSpec == NormalizerInit /\ [][NormalizerNext]_vars

\* C9: _normalize_state applied to its own output returns an equal document
\* and reports changed = false.
C9_NormalizeIdempotent ==
    (norm_pass = 2 /\ norm_pc \in {"done", "raised"}) =>
        /\ norm_pc = "done"
        /\ normalized = raw_state
        /\ changed = FALSE

C1_SingleActiveSolve ==
    \A t \in Callers, u \in Callers :
        (call_pc[t] = "monitor" /\ call_pc[u] = "monitor") => t = u

-----------------------------------------------------------------------------
(* Properties of the solver's response.  In a state with impl_pc = "done"  *)
(* response is the response of the request payload; slot_contexts,          *)
(* slot_intervals and all_slot_intervals depend on the document only.       *)

C3_NoSameDayOverlap ==
    impl_pc = "done" =>
        \A a \in response.assignments :
            /\ \A b \in response.assignments :
                (b # a /\ b.c = a.c /\ b.d = a.d) =>
                    ~(/\ slot_intervals[a.s].start < slot_intervals[b.s].end
                      /\ slot_intervals[b.s].start < slot_intervals[a.s].end)
            /\ \A i \in DOMAIN state.assignments :
                (/\ state.assignments[i].clinicianId = a.c
                 /\ state.assignments[i].dateISO = a.d
                 /\ state.assignments[i].rowId \in DOMAIN all_slot_intervals) =>
                    LET m == all_slot_intervals[state.assignments[i].rowId]
                    IN ~(/\ slot_intervals[a.s].start < m.end
                         /\ m.start < slot_intervals[a.s].end)

\* C3 witness: two produced assignments of one clinician and date whose
\* intervals touch
C3_Witness ==
    /\ impl_pc = "done"
    /\ \E a \in response.assignments, b \in response.assignments :
        /\ b.c = a.c /\ b.d = a.d
        /\ slot_intervals[a.s].end = slot_intervals[b.s].start
        /\ slot_intervals[a.s].start < slot_intervals[a.s].end
        /\ slot_intervals[b.s].start < slot_intervals[b.s].end

\* C4: for one clinician, the absolute-minute interval of a produced
\* assignment (minutes counted from the first day of the context horizon)
\* intersects that of no other produced assignment and of no manual
\* assignment on any date of the context horizon, earlier or later.
C4_NoAbsoluteOverlap ==
    impl_pc = "done" =>
        \A a \in response.assignments :
            LET from_a == slot_intervals[a.s].start + a.d * 1440
                to_a == slot_intervals[a.s].end + a.d * 1440
            IN /\ \A b \in response.assignments :
                    (b # a /\ b.c = a.c) =>
                        ~(/\ from_a < slot_intervals[b.s].end + b.d * 1440
                          /\ slot_intervals[b.s].start + b.d * 1440 < to_a)
               /\ \A i \in DOMAIN state.assignments :
                    (/\ state.assignments[i].clinicianId = a.c
                     /\ state.assignments[i].dateISO >= payload.startISO - 1
                     /\ state.assignments[i].dateISO <= RangeEnd(payload) + 1
                     /\ ~is_on_vac(state, a.c, state.assignments[i].dateISO)
                     /\ state.assignments[i].rowId \in DOMAIN all_slot_intervals) =>
                        LET m == all_slot_intervals[state.assignments[i].rowId]
                            d == state.assignments[i].dateISO
                        IN ~(/\ from_a < m.end + d * 1440
                             /\ m.start + d * 1440 < to_a)

\* C5: with enforceSameLocationPerDay, for one clinician and one date a
\* produced assignment comes with no other produced or manual assignment
\* whose non-empty location differs from its own.
C5_SameLocationPerDay ==
    (impl_pc = "done" /\ state.solverSettings.enforceSameLocationPerDay) =>
        \A a \in response.assignments :
            /\ \A b \in response.assignments :
                (b.c = a.c /\ b.d = a.d) =>
                    \/ slot_intervals[a.s].loc = slot_intervals[b.s].loc
                    \/ slot_intervals[a.s].loc = ""
                    \/ slot_intervals[b.s].loc = ""
            /\ \A i \in DOMAIN state.assignments :
                (/\ state.assignments[i].clinicianId = a.c
                 /\ state.assignments[i].dateISO = a.d
                 /\ state.assignments[i].rowId \in DOMAIN all_slot_intervals) =>
                    LET m == all_slot_intervals[state.assignments[i].rowId]
                    IN \/ slot_intervals[a.s].loc = m.loc
                       \/ slot_intervals[a.s].loc = ""
                       \/ m.loc = ""

\* C5 witness: the rule is on, the template has a slot at a second location
\* on the date, and the clinician gets two assignments that date
C5_Witness ==
    /\ impl_pc = "done"
    /\ state.solverSettings.enforceSameLocationPerDay
    /\ \E a \in response.assignments, b \in response.assignments,
          k \in DOMAIN slot_contexts :
        /\ a # b /\ b.c = a.c /\ b.d = a.d
        /\ slot_contexts[k].day_type = "mon" /\ a.d = 0
        /\ slot_contexts[k].location_id # slot_intervals[a.s].loc

\* C6: with only_fill_required, the number of assignments produced for a
\* slot and a date of the target horizon is at most
\* max(0, required + override - manualCount), where manualCount counts the
\* document's assignments on that slot and date whose clinician is not on
\* vacation.
C6_OnlyFillRequiredCapacity ==
    (impl_pc = "done" /\ payload.only_fill_required) =>
        \A k \in DOMAIN slot_contexts, d \in payload.startISO..RangeEnd(payload) :
            LET sid == slot_contexts[k].slot_id
                produced == {a \in response.assignments : a.d = d /\ a.s = sid}
                manual == {i \in DOMAIN state.assignments :
                            /\ state.assignments[i].dateISO = d
                            /\ state.assignments[i].rowId = sid
                            /\ ~is_on_vac(state, state.assignments[i].clinicianId, d)}
                override == IF <<sid, d>> \in DOMAIN state.slotOverridesByKey
                            THEN state.slotOverridesByKey[<<sid, d>>] ELSE 0
                room == slot_contexts[k].slot.requiredSlots + override
                            - Cardinality(manual)
            IN Cardinality(produced) <= (IF room > 0 THEN room ELSE 0)

\* C6 witness: with only_fill_required, a slot with a manual assignment and
\* an override gets exactly the assignments that are still missing
C6_Witness ==
    /\ impl_pc = "done"
    /\ payload.only_fill_required
    /\ state.assignments # <<>>
    /\ state.slotOverridesByKey # <<>>
    /\ \E a \in response.assignments :
        Cardinality({b \in response.assignments : b.d = a.d /\ b.s = a.s})
            = slot_contexts[1].slot.requiredSlots
              + state.slotOverridesByKey[<<a.s, a.d>>] - 1

\* C7: with on-call rest enabled, a rest section configured and a positive
\* number of rest days: when clinician c has an on-call assignment on day d,
\* manual (on a day of the context horizon) or produced, c gets no produced
\* assignment on a target day within daysBefore days before d or daysAfter
\* days after d, unless the on-call assignment is manual and c already has a
\* manual assignment on that day.
C7_OnCallRest ==
    (/\ impl_pc = "done"
     /\ state.solverSettings.onCallRestEnabled
     /\ (state.solverSettings.onCallRestDaysBefore > 0
         \/ state.solverSettings.onCallRestDaysAfter > 0)) =>
        LET rest_ids == {slot_contexts[k].slot_id : k \in
                {j \in DOMAIN slot_contexts : slot_contexts[j].section_id
                    = state.solverSettings.onCallRestClassId}}
            Manual(c, d) == {i \in DOMAIN state.assignments :
                /\ state.assignments[i].clinicianId = c
                /\ state.assignments[i].dateISO = d
                /\ state.assignments[i].rowId \in DOMAIN slot_intervals
                /\ ~is_on_vac(state, c, d)}
        IN \A b \in response.assignments :
            \A d \in (payload.startISO - 1)..(RangeEnd(payload) + 1) :
                (\/ /\ d - state.solverSettings.onCallRestDaysBefore <= b.d
                    /\ b.d < d
                 \/ /\ d < b.d
                    /\ b.d <= d + state.solverSettings.onCallRestDaysAfter) =>
                    /\ ~\E a \in response.assignments :
                            a.c = b.c /\ a.d = d /\ a.s \in rest_ids
                    /\ (\E i \in Manual(b.c, d) :
                            state.assignments[i].rowId \in rest_ids)
                        => Manual(b.c, b.d) # {}

-----------------------------------------------------------------------------
\* the numbers of the solutions whose events call t has relayed, in order
RelayedSolutions(t) ==
    LET IsSolution(i) == relayed[t][i].event = "solution"
    IN FilterIdx(relayed[t], IsSolution, 1)

\* C11: when the worker has exited and sent no error message, solve_range
\* returns the worker's result if it received one; otherwise, if it relayed
\* a solution event, a response with the assignments of the most recently
\* relayed solution, marked as aborted; otherwise it raises "Solver process
\* terminated without result".
C11_OutcomeAfterWorkerExit ==
    \A t \in Callers :
        (call_outcome[t] # "none" /\ worker_had_exited[t] /\ ~call_error[t]) =>
            LET solutions == RelayedSolutions(t)
            IN IF call_result[t] # None /\ ~call_result[t][1].aborted
               THEN call_outcome[t] = "response"
               ELSE IF solutions # <<>>
               THEN /\ call_outcome[t] = "response"
                    /\ call_result[t] =
                         Some([assignments |-> solutions[Len(solutions)].n,
                               aborted |-> TRUE])
               ELSE /\ call_outcome[t] = "raised"
                    /\ call_exception[t] = "no_result"


\* the progress events call t has relayed, in order
RelayedProgress(t) ==
    LET IsProgress(i) == relayed[t][i].event \in {"phase", "solution"}
    IN FilterIdx(relayed[t], IsProgress, 1)

\* the position of a progress event in the order the worker produces them
ProducedAt(e) == IF e.event = "phase" THEN 0 ELSE e.n

\* C12: the progress events a call relays appear in the order in which its
\* worker produced them, none of them twice, in the monitor loop as in the
\* final drain.
C12_RelayKeepsOrder ==
    \A t \in Callers :
        LET r == RelayedProgress(t)
        IN \A i \in DOMAIN r, j \in DOMAIN r :
                i < j => ProducedAt(r[i]) < ProducedAt(r[j])

\* a call that has left its loop after it relayed the phase event and a
\* solution event of its worker
C12_Witness ==
    \E t \in Callers :
        /\ call_pc[t] = "joined"
        /\ heartbeat_value[t] = 1
        /\ Len(RelayedProgress(t)) = 2
        /\ RelayedProgress(t)[2].event = "solution"


\* the positions of call t's complete events among the events it broadcast
CompleteEvents(t) ==
    {i \in DOMAIN relayed[t] : relayed[t][i].event = "complete"}

\* C13: a solve_range call that has ended and had broadcast its start event
\* has broadcast exactly one complete event, after all its other events,
\* with status success exactly when it returned a response and status error
\* exactly when it raised; a call that received an error message raised.
C13_OneCompleteEvent ==
    \A t \in Callers :
        (call_outcome[t] # "none" /\ relayed[t] # <<>>) =>
            /\ relayed[t][1].event = "start"
            /\ CompleteEvents(t) = {Len(relayed[t])}
            /\ relayed[t][Len(relayed[t])].status =
                    (IF call_outcome[t] = "response" THEN "success"
                     ELSE "error")
            /\ call_error[t] => call_outcome[t] = "raised"


\* C14: an abort request returns abort_requested, force_killed or
\* no_solver_running: no_solver_running when, as it read the flag, every
\* solve_range call had ended or not begun; abort_requested without force
\* when a call was running; force_killed with force when a call was running
\* and its worker alive.
C14_AbortStatus ==
    abort_pc = "returned" =>
        /\ abort_status \in {"abort_requested", "force_killed",
                             "no_solver_running"}
        /\ abort_saw.calls = {} => abort_status = "no_solver_running"
        /\ (abort_saw.running # {} /\ ~abort_force) =>
                abort_status = "abort_requested"
        /\ (abort_saw.workers # {} /\ abort_force) =>
                abort_status = "force_killed"


\* the number of the solution call t relayed last, 0 when it relayed none
LastRelayedSolution(t) ==
    LET solutions == RelayedSolutions(t)
    IN IF solutions = <<>> THEN 0 ELSE solutions[Len(solutions)].n

-----------------------------------------------------------------------------
(* The week-by-week fallback *)

\* C16: a failed full-range solve of more than 14 days is replayed over the
\* weeks [start + 7k, min(start + 7k + 6, end)], taken in date order, which
\* are consecutive, do not overlap, span at most 7 days and cover the range;
\* when every week's solve succeeded the response holds the weekly
\* assignments and starts with the "Full-range solver failed" note and ends
\* with the success summary, otherwise it holds the partial assignments and
\* starts with "No solution"; a range of 14 days or fewer is never replayed,
\* so no week's solve starts a replay of its own.
C16_WeekByWeekFallback ==
    /\ (impl_pc = "done" /\ outer = None /\ solver_status = "UNKNOWN") =>
            TotalDays(payload) <= FALLBACK_MIN_DAYS
    /\ outer # None =>
        LET range_start == RangeStart(outer[1])
            range_end == RangeEnd(outer[1])
        IN /\ TotalDays(outer[1]) > FALLBACK_MIN_DAYS
           /\ impl_pc \in {"load", "solve", "week_return"} =>
                /\ week_cursor \in range_start .. range_end
                /\ (week_cursor - range_start) % (WEEK_SPAN + 1) = 0
                /\ RangeStart(payload) = week_cursor
                /\ RangeEnd(payload) = Min(week_cursor + WEEK_SPAN, range_end)
                /\ TotalDays(payload) <= WEEK_SPAN + 1
           /\ impl_pc = "week_loop" =>
                \/ /\ week_cursor \in range_start .. range_end
                   /\ (week_cursor - range_start) % (WEEK_SPAN + 1) = 0
                \/ week_cursor = range_end + 1
           /\ impl_pc = "done" =>
                /\ response.assignments = week_assignments
                /\ IF week_success
                   THEN /\ response.notes[1] =
                                "Full-range solver failed. Trying week-by-week..."
                        /\ response.notes[Len(response.notes)] =
                                "Week-by-week solving completed successfully"
                   ELSE response.notes[1] = "No solution"

-----------------------------------------------------------------------------
(* Persistence *)

\* C17: a solve never modifies the stored document: the row's data and its
\* updated_at are, after every load of a solve, the ones from before the
\* first solve.
C17_SolveLeavesStoreAlone ==
    /\ updated_at = 0
    /\ norm_pass = 1 => stored_data = raw_state

-----------------------------------------------------------------------------
(* The iCal feed (ical.py).  A text is a sequence of characters; a         *)
(* character is a pair <<s, i>>: with i > 0 it is the i-th character of    *)
(* the ASCII word s (no space, no character that is escaped), with i = 0   *)
(* it is the single character named s.  A date is a day number, day 0      *)
(* being Monday 2024-01-01; the dates of the model lie in January 2024.    *)

Ch(c) == <<c, 0>>

Text(s) == [i \in 1 .. Len(s) |-> <<s, i>>]

Rep(ch, n) == [i \in 1 .. n |-> ch]

CR == Ch("\r")

LF == Ch("\n")

SP == Ch(" ")

BACKSLASH == Ch("\\")

\* the number of bytes of str.encode("utf-8") for one character
Utf8Width(ch) ==
    IF ch[2] > 0 THEN 1
    ELSE CASE ch[1] = "U+00E9" -> 2
           [] ch[1] = "U+20AC" -> 3
           [] ch[1] = "U+1F600" -> 4
           [] OTHER -> 1

\* len(text.encode("utf-8"))
Utf8Len(text) ==
    LET Count(width) ==
            Cardinality({i \in DOMAIN text : Utf8Width(text[i]) = width})
    IN Count(1) + 2 * Count(2) + 3 * Count(3) + 4 * Count(4)

\* the concatenation of the texts lo .. hi of a sequence of texts
RECURSIVE ConcatRange(_, _, _)
ConcatRange(texts, lo, hi) ==
    IF lo > hi THEN <<>>
    ELSE IF lo = hi THEN texts[lo]
    ELSE ConcatRange(texts, lo, (lo + hi) \div 2)
         \o ConcatRange(texts, (lo + hi) \div 2 + 1, hi)

\* ical.py 7-15: what the chain of replacements makes of the i-th character.
\* The backslashes are doubled first, so that no later replacement acts on
\* a character an earlier one wrote; a CR LF pair becomes one "\n"
EscapedAt(value, i) ==
    LET ch == value[i]
    IN IF ch = BACKSLASH THEN <<BACKSLASH, BACKSLASH>>
       ELSE IF ch = CR THEN <<BACKSLASH, Ch("n")>>
       ELSE IF ch = LF
       THEN IF i > 1 /\ value[i - 1] = CR THEN <<>>
            ELSE <<BACKSLASH, Ch("n")>>
       ELSE IF ch \in {Ch(","), Ch(";")} THEN <<BACKSLASH, ch>>
       ELSE <<ch>>

\* ical.py 7-15
_escape_text(value) ==
    ConcatRange([i \in DOMAIN value |-> EscapedAt(value, i)], 1, Len(value))

Digit(k) == <<"0123456789", k + 1>>

\* date.isoformat of a day of January 2024
IsoText(date_value) ==
    Text("2024") \o <<Ch("-")>> \o Text("01") \o <<Ch("-")>>
    \o <<Digit((date_value + 1) \div 10), Digit((date_value + 1) % 10)>>

\* ical.py 23-24
_iso_to_yyyymmdd(date_iso) == SelectSeq(IsoText(date_iso), LAMBDA ch : ch # Ch("-"))

\* ical.py 27-31
_add_days_iso(date_iso, days) == date_iso + days

\* ical.py 143-146: the Monday of the date's week
week_start_SameDay(date_value) == date_value

week_start(date_value) == date_value - (date_value % 7)

first_limit == 75

next_limit == 74

\* ical.py 40-46: the limit of the segment being filled
current_limit_AlwaysFirst(segments) == first_limit

current_limit(segments) == IF segments = <<>> THEN first_limit ELSE next_limit

\* ical.py 41-47: the loop while it takes the else branch; the index of the
\* first character that does not fit in the segment being filled
RECURSIVE FillFrom(_, _, _, _)
FillFrom(line, i, current, limit) ==
    IF i > Len(line) THEN i
    ELSE IF current # <<>> /\ Utf8Len(Append(current, line[i])) > limit
    THEN i
    ELSE FillFrom(line, i + 1, Append(current, line[i]), limit)

\* ical.py 38-49: the loop over the characters of the line, from the i-th,
\* a segment at a time
RECURSIVE FoldFrom(_, _, _)
FoldFrom(line, i, segments) ==
    IF i > Len(line) THEN segments
    ELSE LET next == FillFrom(line, i, <<>>, current_limit(segments))
         IN FoldFrom(line, next, Append(segments, SubSeq(line, i, next - 1)))

\* str.join
RECURSIVE Join(_, _)
Join(sep, texts) ==
    IF texts = <<>> THEN <<>>
    ELSE IF Len(texts) = 1 THEN texts[1]
    ELSE texts[1] \o sep \o Join(sep, Tail(texts))

\* ical.py 34-57
_fold_ical_line(line) ==
    LET segments == FoldFrom(line, 1, <<>>)
    IN IF segments = <<>> THEN line ELSE Join(<<CR, LF, SP>>, segments)

\* ical.py 60-61
_fold_lines(ls) ==
    Join(<<CR, LF>>, [i \in DOMAIN ls |-> _fold_ical_line(ls[i])]) \o <<CR, LF>>

\* dict lookup in a dict filled from a list of records with an id: the last
\* record of an id wins, a record without id is left out
DictGet(records, id) ==
    LET found == {i \in DOMAIN records : records[i].id = id /\ id # ""}
    IN IF found = {} THEN None
       ELSE Some(records[CHOOSE i \in found : \A j \in found : j <= i])

\* ical.py 89-94: the slots of all locations of the template
TemplateSlots(weekly_template) ==
    Flatten([i \in DOMAIN weekly_template.locations |->
                weekly_template.locations[i].slots])

\* ical.py 154-161: the clinician is on vacation that date
VacationHides(clinicians, clinician_id, date_iso) ==
    LET clinician == DictGet(clinicians, clinician_id)
    IN /\ clinician # None
       /\ \E i \in DOMAIN clinician[1].vacations :
            /\ clinician[1].vacations[i].startISO <= date_iso
            /\ date_iso <= clinician[1].vacations[i].endISO

\* the DTSTAMP of the feed, formatted (ical.py 18-20)
DtStamp == Text("20240101T000000Z")

\* ical.py 164-191: the lines of the event of an assignment
EventOf(app_state, assignment, row, block) ==
    LET clinician == DictGet(app_state.clinicians, assignment.clinicianId)
        clinician_name ==
            IF clinician = None \/ clinician[1].name = <<>>
            THEN Text(assignment.clinicianId)
            ELSE clinician[1].name
        row_name == IF row.name # <<>> THEN row.name ELSE Text(block.sectionId)
        assignment_id ==
            IF assignment.id # "" THEN Text(assignment.id)
            ELSE IsoText(assignment.dateISO) \o <<Ch("-")>>
                 \o Text(assignment.rowId) \o <<Ch("-")>>
                 \o Text(assignment.clinicianId)
        summary ==
            IF block.label # <<>>
            THEN row_name \o <<SP, Ch("(")>> \o block.label
                 \o <<Ch(")"), SP, Ch("-"), SP>> \o clinician_name
            ELSE row_name \o <<SP, Ch("-"), SP>> \o clinician_name
        uid == assignment_id \o Text("@shiftschedule")
    IN <<Text("BEGIN:VEVENT"),
         Text("UID:") \o _escape_text(uid),
         Text("DTSTAMP:") \o DtStamp,
         Text("DTSTART") \o <<Ch(";")>> \o Text("VALUE=DATE:")
            \o _iso_to_yyyymmdd(assignment.dateISO),
         Text("DTEND") \o <<Ch(";")>> \o Text("VALUE=DATE:")
            \o _iso_to_yyyymmdd(_add_days_iso(assignment.dateISO, 1)),
         Text("SUMMARY:") \o _escape_text(summary),
         Text("END:VEVENT")>>

\* ical.py 123-163: one pass of the loop over the assignments; the lines
\* the assignment adds
EventLines(input, assignment) ==
    LET app_state == input.app_state
        published_weeks == input.published_week_start_isos
        slot == DictGet(TemplateSlots(app_state.weeklyTemplate),
                        assignment.rowId)
        block == IF slot = None THEN None
                 ELSE DictGet(app_state.weeklyTemplate.blocks, slot[1].blockId)
        row == IF block = None THEN None
               ELSE DictGet(app_state.rows, block[1].sectionId)
    IN IF assignment.rowId = "" \/ slot = None \/ block = None THEN <<>>
       ELSE IF row = None \/ row[1].kind # "class" THEN <<>>
       ELSE IF published_weeks = {} THEN <<>>
       ELSE IF week_start(assignment.dateISO) \notin published_weeks THEN <<>>
       ELSE IF /\ input.clinician_id # None
               /\ input.clinician_id[1] # ""
               /\ assignment.clinicianId # input.clinician_id[1]
       THEN <<>>
       ELSE IF VacationHides(app_state.clinicians, assignment.clinicianId,
                             assignment.dateISO)
       THEN <<>>
       ELSE IF assignment.clinicianId = "" THEN <<>>
       ELSE EventOf(app_state, assignment, row[1], block[1])

\* ical.py 72-121: the lookups are built and the calendar's head is written
IcsHeader ==
    /\ ics_pc = "start"
    /\ lines' = <<Text("BEGIN:VCALENDAR"),
                  Text("VERSION:2.0"),
                  Text("PRODID:-//ShiftSchedule//EN"),
                  Text("CALSCALE:GREGORIAN"),
                  Text("METHOD:PUBLISH"),
                  Text("X-WR-CALNAME:") \o _escape_text(ics_input[1].cal_name)>>
    /\ ics_index' = 1
    /\ ics_pc' = "assignments"
    /\ UNCHANGED <<ics_input, ics>>
    /\ UNCHANGED <<solverVars, orchVars, normVars, prefVars, watchdogVars,
                   hoursVars, fallbackVars>>

\* ical.py 123-191: the next assignment is looked at
IcsAssignment ==
    /\ ics_pc = "assignments"
    /\ ics_index <= Len(ics_input[1].app_state.assignments)
    /\ lines' = lines \o EventLines(ics_input[1],
                            ics_input[1].app_state.assignments[ics_index])
    /\ ics_index' = ics_index + 1
    /\ UNCHANGED <<ics_input, ics_pc, ics>>
    /\ UNCHANGED <<solverVars, orchVars, normVars, prefVars, watchdogVars,
                   hoursVars, fallbackVars>>

\* ical.py 193-194: the calendar is closed, folded and returned
IcsReturn ==
    /\ ics_pc = "assignments"
    /\ ics_index > Len(ics_input[1].app_state.assignments)
    /\ lines' = Append(lines, Text("END:VCALENDAR"))
    /\ ics' = _fold_lines(lines')
    /\ ics_pc' = "done"
    /\ UNCHANGED <<ics_input, ics_index>>
    /\ UNCHANGED <<solverVars, orchVars, normVars, prefVars, watchdogVars,
                   hoursVars, fallbackVars>>

(* Documents and arguments generate_ics is run on *)

MaxFill == 5

MaxWide == 19

IcsRows ==
    <<[id |-> "mri", kind |-> "class", name |-> Text("MRI")],
      [id |-> "pool-rest", kind |-> "pool", name |-> <<>>]>>

\* a slot of a class row, a slot of a pool row, and a slot whose block names
\* a section that is no row
IcsTemplate(label) ==
    [blocks |-> <<[id |-> "b-mri", sectionId |-> "mri", label |-> label],
                  [id |-> "b-pool", sectionId |-> "pool-rest", label |-> <<>>],
                  [id |-> "b-gone", sectionId |-> "gone", label |-> <<>>]>>,
     locations |-> <<[slots |-> <<[id |-> "slot-mri", blockId |-> "b-mri"],
                                  [id |-> "slot-pool", blockId |-> "b-pool"]>>],
                     [slots |-> <<[id |-> "slot-gone", blockId |-> "b-gone"]>>]>>]

IcsClinicians(name, vacations) ==
    <<[id |-> "c1", name |-> name, vacations |-> vacations],
      [id |-> "c2", name |-> <<>>, vacations |-> <<>>]>>

IcsAsg(id, rowId, dateISO, clinicianId) ==
    [id |-> id, rowId |-> rowId, dateISO |-> dateISO,
     clinicianId |-> clinicianId]

\* Which assignments become events: an assignment on the Sunday of the first
\* week, the Monday or the Tuesday of the second, on a slot or a row, alone
\* or followed by an assignment on the Monday of the second week
FilterScenarios ==
    {[app_state |->
        [rows |-> IcsRows,
         clinicians |-> IcsClinicians(Text("Ann"), vacations),
         assignments |-> <<IcsAsg("a1", row_id, date_iso, clinician)>> \o more,
         weeklyTemplate |-> IcsTemplate(<<>>)],
      published_week_start_isos |-> published_weeks,
      cal_name |-> Text("Plan"),
      clinician_id |-> clinician_id] :
        row_id \in {"slot-mri", "slot-pool", "slot-gone", "mri"},
        date_iso \in {6, 7, 8},
        clinician \in {"c1", "c2"},
        more \in {<<>>, <<IcsAsg("a2", "slot-mri", 7, "c2")>>},
        vacations \in {<<>>, <<[startISO |-> 7, endISO |-> 8]>>},
        published_weeks \in {{}, {0}, {7}, {8}, {0, 7}},
        clinician_id \in {None, Some("c1")}}

\* How lines are folded: the clinician's name is a run of ASCII letters, a
\* space and a run of characters of 1 to 4 bytes, so that the SUMMARY line
\* grows across the limit of the first line and of the continuation lines
FoldScenarios ==
    {[app_state |->
        [rows |-> IcsRows,
         clinicians |->
            IcsClinicians(Rep(Ch("a"), fill) \o <<SP>> \o Rep(wide, count),
                          <<>>),
         assignments |-> <<IcsAsg("a1", "slot-mri", 7, "c1")>>,
         weeklyTemplate |-> IcsTemplate(style.label)],
      published_week_start_isos |-> {7},
      cal_name |-> style.cal_name,
      clinician_id |-> None] :
        fill \in 58 .. 58 + MaxFill,
        wide \in {Ch("b"), Ch("U+00E9"), Ch("U+20AC"), Ch("U+1F600")},
        count \in {0, 1, MaxWide},
        style \in {[label |-> <<>>, cal_name |-> Text("Plan")],
                   [label |-> Text("AM"),
                    cal_name |-> <<Ch("A"), Ch(","), Ch(";"), BACKSLASH, CR,
                                   LF, LF, CR, SP, Ch("B")>>]}}

IcalInit ==
    /\ ics_input \in {Some(input) : input \in FilterScenarios \cup FoldScenarios}
    /\ ics_pc = "start"
    /\ ics_index = 0
    /\ lines = <<>>
    /\ ics = <<>>
    /\ SolverIdle
    /\ OrchInit
    /\ NormIdle
    /\ PreferenceIdle
    /\ WatchdogIdle
    /\ HoursIdle
    /\ FallbackIdle

IcalNext ==
    \/ IcsHeader
    \/ IcsAssignment
    \/ IcsReturn

IcalSpec == IcalInit /\ [][IcalNext]_vars

(* Reading the feed back (RFC 5545) *)

\* the places of the line breaks of a text
CrlfAt(text) == {i \in 1 .. Len(text) - 1 : text[i] = CR /\ text[i + 1] = LF}

RECURSIVE Ascending(_)
Ascending(S) ==
    IF S = {} THEN <<>>
    ELSE LET least == CHOOSE x \in S : \A y \in S : x <= y
         IN <<least>> \o Ascending(S \ {least})

\* the physical lines of a text: the texts that end at a line break
PhysicalLines(text) ==
    LET breaks == Ascending(CrlfAt(text))
    IN [k \in DOMAIN breaks |->
            SubSeq(text, IF k = 1 THEN 1 ELSE breaks[k - 1] + 2, breaks[k] - 1)]

\* unfolding: a physical line that starts with a space continues the line
\* before it, the line break and the space taken out
RECURSIVE Unfolded(_)
Unfolded(physical) ==
    IF Len(physical) <= 1 THEN physical
    ELSE LET n == Len(physical)
             last == physical[n]
             init == SubSeq(physical, 1, n - 1)
         IN IF last # <<>> /\ last[1] = SP
            THEN Unfolded([init EXCEPT ![n - 1] = @ \o Tail(last)])
            ELSE Append(Unfolded(init), last)

\* the Monday of a date's week
MondayOf(date_iso) ==
    CHOOSE monday \in 0 .. date_iso :
        monday % 7 = 0 /\ date_iso - monday \in 0 .. 6

\* the four conditions under which an assignment is in the feed
InFeed(input, a) ==
    /\ \E i \in DOMAIN input.app_state.weeklyTemplate.locations :
       \E slot \in Range(input.app_state.weeklyTemplate.locations[i].slots) :
       \E block \in Range(input.app_state.weeklyTemplate.blocks) :
       \E row \in Range(input.app_state.rows) :
            /\ slot.id = a.rowId
            /\ block.id = slot.blockId
            /\ row.id = block.sectionId
            /\ row.kind = "class"
    /\ MondayOf(a.dateISO) \in input.published_week_start_isos
    /\ input.clinician_id # None => a.clinicianId = input.clinician_id[1]
    /\ ~ \E c \in Range(input.app_state.clinicians) :
         \E v \in Range(c.vacations) :
            c.id = a.clinicianId /\ v.startISO <= a.dateISO
            /\ a.dateISO <= v.endISO

UidLine(a) == Text("UID:") \o Text(a.id) \o Text("@shiftschedule")

\* C18: the feed holds one VEVENT for each assignment whose rowId is a
\* template slot whose block's section is a class row, whose week's Monday
\* is published, which matches the clinician filter if one is set and whose
\* clinician is not on vacation that date, in the order of the assignments,
\* and no other VEVENT; with no published week it holds none.
C18_EventsOfFeed ==
    ics_pc = "done" =>
        LET logical == Unfolded(PhysicalLines(ics))
            expected == SelectSeq(ics_input[1].app_state.assignments,
                                  LAMBDA a : InFeed(ics_input[1], a))
        IN /\ SelectSeq(logical, LAMBDA l : SubSeq(l, 1, 4) = Text("UID:"))
                = [i \in DOMAIN expected |-> UidLine(expected[i])]
           /\ Len(SelectSeq(logical, LAMBDA l : l = Text("BEGIN:VEVENT")))
                = Len(expected)
           /\ ics_input[1].published_week_start_isos = {} =>
                Text("BEGIN:VEVENT") \notin Range(logical)

\* an assignment on the Monday of the only published week is in the feed,
\* one of the day before is not
C18_Witness ==
    /\ ics_pc = "done"
    /\ ics_input[1].published_week_start_isos = {7}
    /\ \E a, b \in Range(ics_input[1].app_state.assignments) :
        /\ a.dateISO = 7
        /\ b.dateISO = 6
        /\ b.rowId = "slot-mri"
        /\ UidLine(a) \in Range(lines)
        /\ UidLine(b) \notin Range(lines)

\* C19: the returned text ends every physical line with CRLF, every
\* physical line (a sequence of whole characters, the leading space of a
\* continuation line included) has at most 75 UTF-8 bytes, and taking out
\* every CRLF that a space follows, with that space, gives back the logical
\* lines; each logical line folded alone unfolds to itself.
C19_FoldedLines ==
    ics_pc = "done" =>
        LET physical == PhysicalLines(ics)
        IN /\ Len(ics) - 1 \in CrlfAt(ics)
           /\ \A k \in DOMAIN physical : Utf8Len(physical[k]) <= first_limit
           /\ Unfolded(physical) = lines
           /\ \A i \in DOMAIN lines :
                Unfolded(PhysicalLines(_fold_ical_line(lines[i]) \o <<CR, LF>>))
                    = <<lines[i]>>

\* the SUMMARY line takes three physical lines: a character of more than
\* one byte did not fit at the end of the first and starts the second, and
\* the second has no room for the character that starts the third
C19_Witness ==
    /\ ics_pc = "done"
    /\ LET physical == PhysicalLines(ics)
       IN \E k \in DOMAIN physical :
            /\ k + 2 \in DOMAIN physical
            /\ Utf8Len(physical[k]) < first_limit
            /\ physical[k + 1][1] = SP
            /\ Utf8Width(physical[k + 1][2]) > 1
            /\ physical[k + 2][1] = SP
            /\ Utf8Len(physical[k + 1]) + Utf8Width(physical[k + 2][2])
                    > first_limit

-----------------------------------------------------------------------------
(* Zero-length slots *)

ZeroLength(interval) == interval.end = interval.start

\* C20: a slot whose interval has zero length is in no overlap constraint:
\* no constraint between two variables or between days names a variable of
\* such a slot, and a variable is closed by a manual assignment only when
\* its own slot has length and its clinician has a manual assignment on a
\* slot that has length.
C20_ZeroLengthNeverOverlaps ==
    impl_pc \in {"solve", "done"} =>
        \A con \in constraints :
            con.k \in {"overlap", "manual_overlap", "cross_day",
                       "cross_day_manual"} =>
                \A v \in con.vs :
                    /\ ~ZeroLength(slot_intervals[v.s])
                    /\ con.k \in {"manual_overlap", "cross_day_manual"} =>
                        \E i \in all_manual_assignments :
                            /\ state.assignments[i].clinicianId = v.c
                            /\ ~ZeroLength(all_slot_intervals[
                                    state.assignments[i].rowId])

-----------------------------------------------------------------------------
(* Distribute-all mode *)

\* C21: without only_fill_required, the number of assignments produced for
\* a slot and a date of the target horizon, a slot with nothing missing
\* included, is at most max(missing, base_required * wave_multiplier -
\* manual count), the wave multiplier being max(1, clinicians with a
\* variable div sum of the base_required).
C21_DistributeAllCapacity ==
    (impl_pc = "done" /\ outer = None /\ ~payload.only_fill_required) =>
        \A info \in slot_date_info :
            Cardinality({a \in response.assignments :
                            a.d = info.date_iso /\ a.s = info.slot_id})
                <= Max(info.missing,
                       info.base_required
                            * WaveMultiplier(payload, var_map, slot_date_info)
                       - info.already)


-----------------------------------------------------------------------------
(* Template integrity *)

\* the template of the normalized document resolves all its references
TemplateResolves(doc) ==
    LET template == doc.weeklyTemplate[1]
        class_rows == ClassRows(doc.rows)
        Ids(items) == {items[i].id : i \in DOMAIN items}
    IN /\ \A l \in DOMAIN template.locations :
            LET location == template.locations[l]
            IN /\ \A i \in DOMAIN location.slots :
                    /\ location.slots[i].rowBandId \in Ids(location.rowBands)
                    /\ location.slots[i].colBandId \in Ids(location.colBands)
                    /\ location.slots[i].blockId \in Ids(template.blocks)
               /\ \A d \in DOMAIN DAY_TYPES :
                    \E b \in DOMAIN location.colBands :
                        location.colBands[b].dayType = DAY_TYPES[d]
       /\ \A b \in DOMAIN template.blocks :
            template.blocks[b].sectionId \in Ids(class_rows)

\* C22: after normalization of a document with a legacy or a current
\* template, every template slot's rowBandId and colBandId are ids of a row
\* band and a col band of the slot's own location, its blockId is the id of
\* a block of the template, every block's sectionId is the id of a class
\* row, and every location has a col band of each of the 8 day types.
C22_TemplateReferencesResolve ==
    norm_pc \in {"done", "loaded"} => TemplateResolves(normalized)

\* C22 witness: a normalized current-version template, from which a block of
\* a missing section and its slot were dropped, keeps a slot
C22_Witness ==
    /\ norm_pc = "done"
    /\ raw_state.weeklyTemplate = Some(CurrentTemplateDoc)
    /\ \E l \in DOMAIN normalized.weeklyTemplate[1].locations :
            Len(normalized.weeklyTemplate[1].locations[l].slots) = 1
    /\ Len(normalized.weeklyTemplate[1].blocks) = 1


-----------------------------------------------------------------------------
(* Preferred working times (state.py 565-617).  A time text is the pair    *)
(* <<hours, minutes>> of the numbers it shows, or a text without that      *)
(* shape; a requirement value is Some(text) or, when it is no text, None.  *)
(* An entry of the raw map is a PreferredWorkingTime, a dict or something  *)
(* else; a key of a dict is Some(value), or None when the dict lacks it.   *)

\* state.py 38
PREFERRED_WORKING_DAYS == <<"mon", "tue", "wed", "thu", "fri", "sat", "sun">>

\* str.strip().lower() on the requirement texts of the model
StripLower(value) ==
    CASE value = " Mandatory " -> "mandatory"
      [] value = "PREFERRED" -> "preferred"
      [] OTHER -> value

\* state.py 565-573
_normalize_working_time_requirement(value) ==
    IF value = None THEN "none"
    ELSE LET trimmed == StripLower(value[1])
         IN IF trimmed = "preferred" THEN "preference"
            ELSE IF trimmed \in {"none", "preference", "mandatory"} THEN trimmed
            ELSE "none"

\* state.py 577-583: the start, the end and the requirement read from raw
RawFields(raw) ==
    IF raw.kind = "PreferredWorkingTime"
    THEN [startTime |-> raw.startTime, endTime |-> raw.endTime,
          requirement |-> Some(raw.requirement)]
    ELSE IF raw.kind = "dict"
    THEN [startTime |-> raw.startTime, endTime |-> raw.endTime,
          requirement |->
            IF raw.requirement # None THEN raw.requirement[1]
            ELSE IF raw.mode # None THEN raw.mode[1]
            ELSE IF raw.status # None THEN raw.status[1]
            ELSE None]
    ELSE [startTime |-> None, endTime |-> None, requirement |-> None]

\* a normalization that keeps the requirement of an entry whose window is
\* invalid
_normalize_preferred_working_time_entry_KeepRequirement(raw) ==
    LET fields == RawFields(raw)
        start_minutes_raw == _parse_time_to_minutes(fields.startTime)
        end_minutes_raw == _parse_time_to_minutes(fields.endTime)
        invalid_window ==
            \/ start_minutes_raw = None
            \/ end_minutes_raw = None
            \/ end_minutes_raw[1] <= start_minutes_raw[1]
    IN [kind |-> "PreferredWorkingTime",
        startTime |-> IF invalid_window THEN <<7, 0>>
                      ELSE _format_minutes(start_minutes_raw[1]),
        endTime |-> IF invalid_window THEN <<17, 0>>
                    ELSE _format_minutes(end_minutes_raw[1]),
        requirement |-> _normalize_working_time_requirement(fields.requirement)]

\* state.py 576-609
_normalize_preferred_working_time_entry(raw) ==
    LET fields == RawFields(raw)
        start_minutes_raw == _parse_time_to_minutes(fields.startTime)
        end_minutes_raw == _parse_time_to_minutes(fields.endTime)
        invalid_window ==
            \/ start_minutes_raw = None
            \/ end_minutes_raw = None
            \/ end_minutes_raw[1] <= start_minutes_raw[1]
        requirement ==
            IF invalid_window THEN "none"
            ELSE _normalize_working_time_requirement(fields.requirement)
        start_minutes ==
            IF invalid_window THEN _parse_time_to_minutes(<<7, 0>>)
            ELSE start_minutes_raw
        end_minutes ==
            IF invalid_window THEN _parse_time_to_minutes(<<17, 0>>)
            ELSE end_minutes_raw
    IN [kind |-> "PreferredWorkingTime",
        startTime |-> IF start_minutes # None
                      THEN _format_minutes(start_minutes[1]) ELSE <<7, 0>>,
        endTime |-> IF end_minutes # None
                    THEN _format_minutes(end_minutes[1]) ELSE <<17, 0>>,
        requirement |-> requirement]

\* an entry that is neither a PreferredWorkingTime nor a dict: source.get(day)
\* of a day the map does not have
NoEntry == [kind |-> "None"]

\* source.get(day)
SourceGet(source, day) == IF day \in DOMAIN source THEN source[day] ELSE NoEntry

\* state.py 612-617; a raw value that is no dict is None
_normalize_preferred_working_times(raw) ==
    LET source == IF raw = None THEN <<>> ELSE raw[1]
    IN [day \in Range(PREFERRED_WORKING_DAYS) |->
            _normalize_preferred_working_time_entry(SourceGet(source, day))]

\* the time texts of the model: 7:00, 9:30, 12:00, 17:00, 23:59, the hour
\* 25, the minute 60, a text without the shape H:MM and no text
TimeTexts ==
    {<<7, 0>>, <<9, 30>>, <<12, 0>>, <<17, 0>>, <<23, 59>>, <<25, 0>>,
     <<12, 60>>, <<"noon">>, None}

\* the requirement values of the model: the literals of the model class,
\* the legacy text, texts with other case or blanks around, an unknown
\* text and a value that is no text
RequirementValues ==
    {Some(text) : text \in {"none", "preference", "mandatory", "preferred",
                            " Mandatory ", "PREFERRED", "always"}}
    \cup {None}

\* the entries of Monday: validated entries and dicts
MondayEntries ==
    {[kind |-> "PreferredWorkingTime", startTime |-> start, endTime |-> end,
      requirement |-> requirement] :
        start \in TimeTexts, end \in TimeTexts,
        requirement \in {"none", "preference", "mandatory"}}
    \cup
    {[kind |-> "dict", startTime |-> start, endTime |-> end,
      requirement |-> Some(requirement), mode |-> None, status |-> None] :
        start \in {<<9, 30>>, <<25, 0>>}, end \in {<<12, 0>>, <<9, 30>>},
        requirement \in RequirementValues}
    \cup
    {[kind |-> "dict", startTime |-> <<9, 30>>, endTime |-> <<17, 0>>,
      requirement |-> None, mode |-> mode, status |-> status] :
        mode \in {None, Some(Some("mandatory"))},
        status \in {None, Some(Some("preferred"))}}
    \cup {NoEntry}

\* the raw maps: no dict, or a dict with some of the keys mon, sun and
\* holiday
RawTimes ==
    {None} \cup
    {Some([day \in keys |->
            CASE day = "mon" -> monday
              [] day = "sun" ->
                    [kind |-> "dict", startTime |-> <<7, 0>>,
                     endTime |-> <<17, 0>>,
                     requirement |-> Some(Some("preferred")),
                     mode |-> None, status |-> None]
              [] OTHER ->
                    [kind |-> "PreferredWorkingTime", startTime |-> <<7, 0>>,
                     endTime |-> <<12, 0>>, requirement |-> "mandatory"]]) :
        monday \in MondayEntries,
        keys \in {{"mon"}, {"mon", "sun"}, {"mon", "holiday"}, {"sun"}}}

PreferenceInit ==
    /\ clinician_times \in RawTimes
    /\ times_pc = "start"
    /\ preferred_working_times = None
    /\ SolverIdle
    /\ OrchInit
    /\ NormIdle
    /\ IcalIdle
    /\ WatchdogIdle
    /\ HoursIdle
    /\ FallbackIdle

\* state.py 717-726: the clinician's map is normalized
NormalizeClinician ==
    /\ times_pc = "start"
    /\ preferred_working_times' =
            Some(_normalize_preferred_working_times(clinician_times))
    /\ times_pc' = "done"
    /\ UNCHANGED clinician_times
    /\ UNCHANGED <<solverVars, orchVars, normVars, icalVars, watchdogVars,
                   hoursVars, fallbackVars>>

PreferenceNext ==
    NormalizeClinician

PreferenceSpec == PreferenceInit /\ [][PreferenceNext]_vars


\* the window of an entry is valid: both times parse and the end is after
\* the start
ValidWindow(fields) ==
    /\ _parse_time_to_minutes(fields.startTime) # None
    /\ _parse_time_to_minutes(fields.endTime) # None
    /\ _parse_time_to_minutes(fields.endTime)[1]
            > _parse_time_to_minutes(fields.startTime)[1]

\* the requirement a valid entry is to get: a requirement text is read
\* without the blanks around it and in lower case
CoercedRequirement(value) ==
    IF value = None THEN "none"
    ELSE IF StripLower(value[1]) = "preferred" THEN "preference"
    ELSE IF StripLower(value[1]) \in {"none", "preference", "mandatory"}
         THEN StripLower(value[1])
    ELSE "none"

-----------------------------------------------------------------------------
(* The heartbeat watchdog (solver.py 299-321) of one worker and the        *)
(* heartbeat of its parent's monitor loop (640-643).  The watchdog reads   *)
(* the heartbeat once a second; last_heartbeat_age is the number of        *)
(* seconds between last_heartbeat_time and the read.                       *)

\* the heartbeat counter is capped: the parent ticks at most MaxTicks times
MaxTicks == 3

\* solver.py 92
SUBPROCESS_HEARTBEAT_TIMEOUT_SECONDS == 10

\* the age is counted up to the first second that is past the timeout
MaxAge == SUBPROCESS_HEARTBEAT_TIMEOUT_SECONDS + 1

\* a watchdog that never sees a timeout
TimedOut_Never(age) == FALSE

\* solver.py 311
TimedOut(age) == age > SUBPROCESS_HEARTBEAT_TIMEOUT_SECONDS

\* the worker has started: the parent is in its monitor loop, the watchdog
\* has read the heartbeat a first time (solver.py 299-300, 633-637)
WatchdogInit ==
    /\ monitoring = TRUE
    /\ heartbeat_counter = 0
    /\ subprocess_pc = "running"
    /\ own_cancel_event = FALSE
    /\ watchdog_pc = "running"
    /\ last_heartbeat = 0
    /\ last_heartbeat_age = 0
    /\ ticked = FALSE
    /\ SolverIdle
    /\ OrchInit
    /\ NormIdle
    /\ IcalIdle
    /\ PreferenceIdle
    /\ HoursIdle
    /\ FallbackIdle

\* solver.py 640-643: an iteration of the monitor loop writes the heartbeat
ParentTick ==
    /\ monitoring
    /\ heartbeat_counter < MaxTicks
    /\ heartbeat_counter' = heartbeat_counter + 1
    /\ ticked' = TRUE
    /\ UNCHANGED <<monitoring, subprocess_pc, own_cancel_event, watchdog_pc,
                   last_heartbeat, last_heartbeat_age>>
    /\ UNCHANGED <<solverVars, orchVars, normVars, icalVars, prefVars,
                   hoursVars, fallbackVars>>

\* the monitor loop ends (solver.py 649-665), or the parent hangs or
\* vanishes: the heartbeat is written no more
ParentStops ==
    /\ monitoring
    /\ monitoring' = FALSE
    /\ UNCHANGED <<heartbeat_counter, subprocess_pc, own_cancel_event,
                   watchdog_pc, last_heartbeat, last_heartbeat_age, ticked>>
    /\ UNCHANGED <<solverVars, orchVars, normVars, icalVars, prefVars,
                   hoursVars, fallbackVars>>

\* solver.py 306-318: an iteration of the watchdog's loop, with its sleep
\* of one second
WatchdogCheck ==
    /\ watchdog_pc = "running"
    /\ subprocess_pc = "running"
    /\ IF heartbeat_counter # last_heartbeat
       THEN /\ last_heartbeat' = heartbeat_counter
            /\ last_heartbeat_age' = 1
            /\ UNCHANGED <<own_cancel_event, watchdog_pc>>
       ELSE IF TimedOut(last_heartbeat_age)
       THEN /\ own_cancel_event' = TRUE
            /\ watchdog_pc' = "firing"
            /\ UNCHANGED <<last_heartbeat, last_heartbeat_age>>
       ELSE /\ last_heartbeat_age' = Min(last_heartbeat_age + 1, MaxAge)
            /\ UNCHANGED <<last_heartbeat, own_cancel_event, watchdog_pc>>
    /\ ticked' = FALSE
    /\ UNCHANGED <<monitoring, heartbeat_counter, subprocess_pc>>
    /\ UNCHANGED <<solverVars, orchVars, normVars, icalVars, prefVars,
                   hoursVars, fallbackVars>>

\* solver.py 315-317: after half a second the watchdog ends the process
WatchdogExit ==
    /\ watchdog_pc = "firing"
    /\ subprocess_pc = "running"
    /\ subprocess_pc' = "exited"
    /\ watchdog_pc' = "exited"
    /\ UNCHANGED <<monitoring, heartbeat_counter, own_cancel_event,
                   last_heartbeat, last_heartbeat_age, ticked>>
    /\ UNCHANGED <<solverVars, orchVars, normVars, icalVars, prefVars,
                   hoursVars, fallbackVars>>

\* solver.py 341-349: the worker sends its result or its error, stops the
\* watchdog and ends
WorkerFinish ==
    /\ subprocess_pc = "running"
    /\ subprocess_pc' = "exited"
    /\ watchdog_pc' = "stopped"
    /\ UNCHANGED <<monitoring, heartbeat_counter, own_cancel_event,
                   last_heartbeat, last_heartbeat_age, ticked>>
    /\ UNCHANGED <<solverVars, orchVars, normVars, icalVars, prefVars,
                   hoursVars, fallbackVars>>

WatchdogNext ==
    \/ ParentTick
    \/ ParentStops
    \/ WatchdogCheck
    \/ WatchdogExit
    \/ WorkerFinish

WatchdogSpec == WatchdogInit /\ [][WatchdogNext]_vars

\* The watchdog is a thread of the worker process whose loop sleeps between
\* its reads, and the exit follows the firing after a sleep: the scheduler
\* runs both.  The worker's own end and the parent's steps are not fair.
WatchdogFairSpec ==
    WatchdogSpec /\ WF_vars(WatchdogCheck) /\ WF_vars(WatchdogExit)

\* C24: once the parent writes the heartbeat no more, the worker eventually
\* exits, and a worker the watchdog ended has its cancellation flag set; an
\* iteration of the monitor loop increments the heartbeat; and the watchdog
\* fires only at a read before which the heartbeat was not written since
\* the read before.
C24_HeartbeatWatchdog ==
    /\ (~monitoring) ~> (subprocess_pc = "exited")
    /\ [](watchdog_pc \in {"firing", "exited"} => own_cancel_event)
    /\ [][ParentTick => heartbeat_counter' = heartbeat_counter + 1]_vars
    /\ [][(watchdog_pc = "running" /\ watchdog_pc' = "firing")
            => (~ticked /\ heartbeat_counter = last_heartbeat)]_vars

\* C24 witness: the parent wrote the heartbeat, the watchdog saw it, the
\* parent stopped and the watchdog ended the worker
C24_Witness ==
    /\ ~monitoring
    /\ heartbeat_counter > 0
    /\ last_heartbeat = heartbeat_counter
    /\ own_cancel_event
    /\ watchdog_pc = "exited"
    /\ subprocess_pc = "exited"


-----------------------------------------------------------------------------
(* The working-hours penalty (solver.py 1314-1376) of one clinician.       *)
(* Hours are whole numbers; workingHoursPerWeek is None or a number.       *)

\* solver.py 442
WORKING_HOURS_BLOCK_MINUTES == 15

\* int(round(n / 7.0)) for n >= 0: n / 7 is never halfway between two
\* integers
RoundSevenths(n) == (2 * n + 7) \div 14

\* solver.py 1340: Python's `or` takes 5 for the tolerance 0
tolerance_hours(clinician) ==
    Max(0, IF clinician.workingHoursToleranceHours = 0 THEN 5
           ELSE clinician.workingHoursToleranceHours)

\* solver.py 1316, 1341
target_minutes(clinician, total_days) ==
    RoundSevenths(clinician.workingHoursPerWeek[1] * 60 * total_days)

\* solver.py 1316, 1342
tol_minutes(clinician, total_days) ==
    RoundSevenths(tolerance_hours(clinician) * 60 * total_days)

\* solver.py 1334-1376: the least value under_blocks + over_blocks can take
\* when the clinician's assignments sum to total_minutes; 0 for a clinician
\* without a penalty term
HoursPenaltyTerm(clinician, total_days, total_minutes) ==
    IF clinician.workingHoursPerWeek = None THEN 0
    ELSE IF clinician.workingHoursPerWeek[1] <= 0 THEN 0
    ELSE IF /\ target_minutes(clinician, total_days) <= 0
            /\ tol_minutes(clinician, total_days) <= 0
    THEN 0
    ELSE LET target_minus_tol ==
                Max(0, target_minutes(clinician, total_days)
                        - tol_minutes(clinician, total_days))
             target_plus_tol == target_minutes(clinician, total_days)
                                    + tol_minutes(clinician, total_days)
             under == Max(0, target_minus_tol - total_minutes)
             over == Max(0, total_minutes - target_plus_tol)
         IN (under \div WORKING_HOURS_BLOCK_MINUTES)
                + (over \div WORKING_HOURS_BLOCK_MINUTES)

\* the most quarter hours a clinician's assignments sum to
MaxQuarters == 12

\* clinicians with no, zero, 7 or 38 weekly hours and a tolerance of 0, 1 or
\* 5 hours, target ranges of 1, 7 and 14 days, and totals of assignments in
\* quarter hours
HoursScenarios ==
    {[clinician |-> [workingHoursPerWeek |-> hours,
                     workingHoursToleranceHours |-> tolerance],
      total_days |-> days,
      total_minutes |-> 15 * quarters] :
        hours \in {None, Some(0), Some(7), Some(38)},
        tolerance \in {0, 1, 5},
        days \in {1, 7, 14},
        quarters \in 0..MaxQuarters}

HoursInit ==
    /\ hours_input \in {Some(input) : input \in HoursScenarios}
    /\ hours_pc = "start"
    /\ hours_penalty = 0
    /\ SolverIdle
    /\ OrchInit
    /\ NormIdle
    /\ IcalIdle
    /\ PreferenceIdle
    /\ WatchdogIdle
    /\ FallbackIdle

\* solver.py 1334-1376: the penalty term of the clinician is built
WorkingHoursConstraints ==
    /\ hours_pc = "start"
    /\ hours_penalty' = HoursPenaltyTerm(hours_input[1].clinician,
                            hours_input[1].total_days,
                            hours_input[1].total_minutes)
    /\ hours_pc' = "done"
    /\ UNCHANGED hours_input
    /\ UNCHANGED <<solverVars, orchVars, normVars, icalVars, prefVars,
                   watchdogVars, fallbackVars>>

HoursNext ==
    WorkingHoursConstraints

HoursSpec == HoursInit /\ [][HoursNext]_vars

\* C25: for a clinician with workingHoursPerWeek > 0 the penalty is
\* under div 15 + over div 15, under and over being the minutes the total
\* lies below target - tolerance and above target + tolerance, with
\* target = round(workingHoursPerWeek * 60 * days / 7) and tolerance =
\* round(workingHoursToleranceHours * 60 * days / 7), the tolerance 0
\* included: with tolerance 0 a total that is 15 minutes or more off the
\* target is penalized.
C25_WorkingHoursPenalty ==
    (/\ hours_pc = "done"
     /\ hours_input[1].clinician.workingHoursPerWeek # None
     /\ hours_input[1].clinician.workingHoursPerWeek[1] > 0) =>
        LET clinician == hours_input[1].clinician
            days == hours_input[1].total_days
            total == hours_input[1].total_minutes
            target == RoundSevenths(clinician.workingHoursPerWeek[1] * 60 * days)
            tolerance ==
                RoundSevenths(clinician.workingHoursToleranceHours * 60 * days)
            under == Max(0, target - tolerance - total)
            over == Max(0, total - target - tolerance)
        IN /\ hours_penalty = (under \div 15) + (over \div 15)
           /\ (/\ clinician.workingHoursToleranceHours = 0
               /\ \/ total - target >= 15
                  \/ target - total >= 15) => hours_penalty > 0


-----------------------------------------------------------------------------
(* Feasibility of the constraint model *)

-----------------------------------------------------------------------------
(* Aborts and the start-up of solve_range *)

\* C27: after an abort request returned abort_requested for a solve in
\* progress, the request is not lost: while the call has not ended and its
\* worker has not exited, the global cancel event or the worker's
\* cancellation flag is set, so that the monitor loop sets the worker's
\* flag at its next iteration.
C27_AbortReachesWorker ==
    (/\ abort_pc = "returned"
     /\ abort_status = "abort_requested"
     /\ InProgress("t1")
     /\ worker_pc["t1"] # "exited") =>
        (_solver_cancel_event \/ cancel_event["t1"])


\* C28: once the solve_range call has ended, by a response, by an exception
\* or by a failed spawn, the running flag is false, no worker handle is
\* kept and the worker is not alive; and an abort request that read the
\* flag with no call in progress returned no_solver_running.
C28_EndedCallLeavesNothing ==
    /\ call_pc["t1"] = "done" =>
        /\ ~_solver_is_running
        /\ _solver_process = None
        /\ ~Alive("t1")
    /\ (abort_pc = "returned" /\ abort_saw.calls = {}) =>
            abort_status = "no_solver_running"


-----------------------------------------------------------------------------
(* The note of unfilled slots *)

\* the positions of a slot and date that the response leaves unfilled
Unfilled(info) ==
    Max(0, info.target - info.already
            - Cardinality({a \in response.assignments :
                            a.d = info.date_iso /\ a.s = info.slot_id}))

\* C29: when the solve returned a solution and some slot and date of the
\* target horizon has produced + manualCount < max(0, required + override),
\* the notes contain "Could not fill all required slots.".
C29_UnfilledSlotsAreNoted ==
    (/\ impl_pc = "done"
     /\ outer = None
     /\ solver_status = "FEASIBLE"
     /\ \E info \in slot_date_info : Unfilled(info) > 0) =>
        "Could not fill all required slots." \in Range(response.notes)

-----------------------------------------------------------------------------
(* The week-by-week fallback (solver.py 1658-1715) as it runs in the worker *)
(* of call "t1".  The full-range solve has ended without a solution and the *)
(* range is longer than 14 days, so _solve_range_impl calls solve_range for *)
(* every week.  That call runs in the worker process: it clears the worker  *)
(* process's own _solver_cancel_event (a threading.Event of that process,   *)
(* solver.py 73; workers are spawned, solver.py 83), starts a worker of its *)
(* own with a new cancellation flag, and its monitor loop copies the worker *)
(* process's event into that flag.  cancel_event["t1"] is the flag the      *)
(* parent process sets for the worker on an abort.                          *)

\* the weeks of the range the fallback goes through
FallbackWeeks == 3

fallbackKeeps == <<call_pc, _solver_running_lock, _solver_is_running,
                   _solver_cancel_event, _solver_process, progress_queue,
                   cancel_event, heartbeat_value, call_result, call_error,
                   last_solution_assignments, relayed, call_outcome>>

\* solver.py 1658-1667: the full-range solve found nothing; the week loop
\* begins
FallbackStart ==
    /\ worker_pc["t1"] = "running"
    /\ Produced("t1") = 0
    /\ fallback_pc = "none"
    /\ worker_pc' = [worker_pc EXCEPT !["t1"] = "fallback"]
    /\ fallback_pc' = "week_loop"
    /\ UNCHANGED <<week_num, worker_solver_cancel_event, week_cancel_event,
                   week_started_cancelled>>
    /\ UNCHANGED <<fallbackKeeps, historyVars, abortVars, solverVars,
                   normVars, icalVars, prefVars, watchdogVars, hoursVars>>

\* solver.py 1668-1683 and 597-638: the loop calls solve_range for the next
\* week, whose start-up clears the process's event and makes a new flag
WeekSolveStart ==
    /\ worker_pc["t1"] = "fallback"
    /\ fallback_pc = "week_loop"
    /\ week_num < FallbackWeeks
    /\ week_num' = week_num + 1
    /\ worker_solver_cancel_event' = FALSE
    /\ week_cancel_event' = FALSE
    /\ week_started_cancelled' = (week_started_cancelled \/ cancel_event["t1"])
    /\ fallback_pc' = "week_monitor"
    /\ UNCHANGED <<worker_pc, fallbackKeeps, historyVars, abortVars,
                   solverVars, normVars, icalVars, prefVars, watchdogVars,
                   hoursVars>>

\* solver.py 640-647: the week's monitor loop copies the event of its own
\* process into the week's flag
WeekMonitorTick ==
    /\ worker_pc["t1"] = "fallback"
    /\ fallback_pc = "week_monitor"
    /\ week_cancel_event' = (week_cancel_event \/ worker_solver_cancel_event)
    /\ UNCHANGED <<fallback_pc, week_num, worker_solver_cancel_event,
                   week_started_cancelled>>
    /\ UNCHANGED <<worker_pc, fallbackKeeps, historyVars, abortVars,
                   solverVars, normVars, icalVars, prefVars, watchdogVars,
                   hoursVars>>

\* solver.py 1683-1697: the week's solve_range returns or raises, and the
\* loop moves to the next week
WeekSolveEnd ==
    /\ worker_pc["t1"] = "fallback"
    /\ fallback_pc = "week_monitor"
    /\ fallback_pc' = "week_loop"
    /\ UNCHANGED <<week_num, worker_solver_cancel_event, week_cancel_event,
                   week_started_cancelled>>
    /\ UNCHANGED <<worker_pc, fallbackKeeps, historyVars, abortVars,
                   solverVars, normVars, icalVars, prefVars, watchdogVars,
                   hoursVars>>

\* solver.py 1699-1715: past the last week the fallback returns its response
\* and the worker goes on to send it
WorkerFallbackReturn ==
    /\ worker_pc["t1"] = "fallback"
    /\ fallback_pc = "week_loop"
    /\ week_num = FallbackWeeks
    /\ fallback_pc' = "returned"
    /\ worker_pc' = [worker_pc EXCEPT !["t1"] = "stopped"]
    /\ UNCHANGED <<week_num, worker_solver_cancel_event, week_cancel_event,
                   week_started_cancelled>>
    /\ UNCHANGED <<fallbackKeeps, historyVars, abortVars, solverVars,
                   normVars, icalVars, prefVars, watchdogVars, hoursVars>>

\* one solve_range call whose worker may fall back to weeks, and one
\* abort_solver request
FallbackNext ==
    \/ AbortNext
    \/ FallbackStart
    \/ WeekSolveStart
    \/ WeekMonitorTick
    \/ WeekSolveEnd
    \/ WorkerFallbackReturn

FallbackSpec == OrchestratorInit /\ [][FallbackNext]_vars

\* C30: once a graceful abort has set the worker's cancellation flag during
\* the week-by-week fallback, the abort is on its way to the week's solve in
\* progress (it is in the flag that solve's callback reads, or in the event
\* that solve's monitor loop copies into the flag), and the fallback starts
\* no further week's solve.
C30_AbortReachesWeekSolve ==
    /\ (/\ ~abort_force
        /\ cancel_event["t1"]
        /\ worker_pc["t1"] = "fallback"
        /\ fallback_pc = "week_monitor")
            => (week_cancel_event \/ worker_solver_cancel_event)
    /\ ~abort_force => ~week_started_cancelled

=============================================================================
